---- MODULE Spec2Model ----
(***************************************************************************)
(* Glue Converter waveform engine of py-libs-common                        *)
(* (nitoolbox/src/fnal_ni_toolbox/glue_converter.py): the GlueWave value   *)
(* object, the Glue file codec (write_glue / read_glue), the IOSpec table  *)
(* (parse_iospec_file), the dict / ASCII importers and the bitstream       *)
(* queries.                                                                *)
(*                                                                         *)
(* Python values are records tagged with their Python type in the field    *)
(* "type"; a Python str is a sequence of one-character strings, so that    *)
(* str(), int(), float(), split(), strip() and count() are computed, not   *)
(* assumed.  A call that raises yields the value Raise(<exception>).       *)
(***************************************************************************)
EXTENDS Integers, Sequences, FiniteSets, TLC

VARIABLES
    gc,      \* the GlueConverter object (IOSpec table, logger)
    wave1,   \* a GlueWave object held by the caller, or None
    wave2,   \* a second GlueWave object held by the caller, or None
    fs,      \* the file system: a function from the names of the files
             \* that exist to their lists of lines
    op,      \* the last call made: its name and arguments
    ret,     \* what the last call returned (or raised)
    nedits   \* number of in-place edits made to wave1 since it was built

vars == <<gc, wave1, wave2, fs, op, ret, nedits>>

----------------------------------------------------------------------------
(* Bounds of the model *)

MaxLen == 3        \* longest vector handed to the GlueWave constructor
MaxVal == 10       \* largest vector element handed to the constructor
                   \* (two decimal digits)
MaxLineLen == 3    \* longest first line of an externally supplied Glue file
MaxEdits == 2      \* most in-place edits made to one wave
MaxBit == 2        \* highest bit position edited or projected
MaxSpecLines == 3  \* most lines of a generated IOSpec file after its first
MaxSeq == 3        \* longest generated 0/1 sequence handed to dict2Glue
MaxBits == 2       \* longest generated bitstring of an ASCII wave file

----------------------------------------------------------------------------
(* Python values *)

None == [type |-> "NoneType"]
PyInt(n) == [type |-> "int", val |-> n]
PyStr(s) == [type |-> "str", val |-> s]
PyList(s) == [type |-> "list", val |-> s]
PyBool(b) == [type |-> "bool", val |-> b]
Raise(e) == [type |-> "raise", exc |-> e]

\* A Python float whose shortest repr is the decimal m / 10^e (e = 0 or m
\* not a multiple of 10): str(), float() and == are exact on these.
PyFloat(m, e) == [type |-> "float", m |-> m, e |-> e]

RECURSIVE Pow10(_)
Pow10(e) == IF e = 0 THEN 1 ELSE 10 * Pow10(e - 1)

RECURSIVE Pow2(_)
Pow2(p) == IF p = 0 THEN 1 ELSE 2 * Pow2(p - 1)

IsNum(a) == a.type \in {"int", "float"}
NumM(a) == IF a.type = "int" THEN a.val ELSE a.m
NumE(a) == IF a.type = "int" THEN 0 ELSE a.e

\* Python's a == b on numbers and None: numbers compare by value whatever
\* their type (25000 == 25000.0).
PyEq(a, b) ==
    IF IsNum(a) /\ IsNum(b)
    THEN NumM(a) * Pow10(NumE(b)) = NumM(b) * Pow10(NumE(a))
    ELSE a = b

----------------------------------------------------------------------------
(* Python str operations, on sequences of characters *)

Digits == <<"0", "1", "2", "3", "4", "5", "6", "7", "8", "9">>
IsDigit(c) == \E d \in 1..10 : Digits[d] = c
DigitVal(c) == (CHOOSE d \in 1..10 : Digits[d] = c) - 1
IsSpace(c) == c \in {" ", "\n", "\t"}

\* str(n) of a non-negative int
RECURSIVE IntToStr(_)
IntToStr(n) ==
    IF n < 10 THEN <<Digits[n + 1]>>
    ELSE IntToStr(n \div 10) \o <<Digits[(n % 10) + 1]>>

\* the decimal digits of n, left-padded with zeros to width w
RECURSIVE PadDigits(_, _)
PadDigits(n, w) ==
    IF w = 0 THEN <<>> ELSE PadDigits(n \div 10, w - 1) \o <<Digits[(n % 10) + 1]>>

\* str(x) of a number or None
Str(x) ==
    CASE x.type = "int" -> IntToStr(x.val)
      [] x.type = "float" ->
            IF x.e = 0 THEN IntToStr(x.m) \o <<".", "0">>
            ELSE IntToStr(x.m \div Pow10(x.e)) \o <<".">>
                 \o PadDigits(x.m % Pow10(x.e), x.e)
      [] OTHER -> <<"N", "o", "n", "e">>

\* s.strip()
RECURSIVE LStrip(_)
LStrip(s) == IF s # <<>> /\ IsSpace(Head(s)) THEN LStrip(Tail(s)) ELSE s
RECURSIVE RStrip(_)
RStrip(s) ==
    IF s # <<>> /\ IsSpace(s[Len(s)]) THEN RStrip(SubSeq(s, 1, Len(s) - 1)) ELSE s
Strip(s) == RStrip(LStrip(s))

\* s.count(c), c one character
RECURSIVE Count(_, _)
Count(s, c) ==
    IF s = <<>> THEN 0 ELSE (IF Head(s) = c THEN 1 ELSE 0) + Count(Tail(s), c)

\* s.replace(c, ""), c one character
RECURSIVE Remove(_, _)
Remove(s, c) ==
    IF s = <<>> THEN <<>>
    ELSE (IF Head(s) = c THEN <<>> ELSE <<Head(s)>>) \o Remove(Tail(s), c)

\* s.split(c), c one character: always at least one piece
RECURSIVE SplitFrom(_, _, _)
SplitFrom(s, c, cur) ==
    IF s = <<>> THEN <<cur>>
    ELSE IF Head(s) = c THEN <<cur>> \o SplitFrom(Tail(s), c, <<>>)
    ELSE SplitFrom(Tail(s), c, Append(cur, Head(s)))
Split(s, c) == SplitFrom(s, c, <<>>)

\* sep.join(parts)
RECURSIVE Join(_, _)
Join(parts, sep) ==
    IF parts = <<>> THEN <<>>
    ELSE IF Len(parts) = 1 THEN parts[1]
    ELSE parts[1] \o sep \o Join(Tail(parts), sep)

\* sub in s
Contains(s, sub) ==
    \E i \in 1..(Len(s) - Len(sub) + 1) : SubSeq(s, i, i + Len(sub) - 1) = sub

StartsWith(s, pre) == Len(s) >= Len(pre) /\ SubSeq(s, 1, Len(pre)) = pre

AllDigits(s) == \A i \in 1..Len(s) : IsDigit(s[i])

RECURSIVE DigitsVal(_)
DigitsVal(s) ==
    IF s = <<>> THEN 0 ELSE 10 * DigitsVal(SubSeq(s, 1, Len(s) - 1)) + DigitVal(s[Len(s)])

\* int(s): surrounding whitespace is ignored; anything but a non-empty run
\* of digits raises ValueError (the model's strings hold no sign and no '_').
IntOf(s) ==
    LET t == Strip(s)
    IN IF t # <<>> /\ AllDigits(t) THEN PyInt(DigitsVal(t)) ELSE Raise("ValueError")

RECURSIVE DropTrailingZeros(_)
DropTrailingZeros(s) ==
    IF s # <<>> /\ s[Len(s)] = "0" THEN DropTrailingZeros(SubSeq(s, 1, Len(s) - 1)) ELSE s

\* float(s): digits with at most one '.', a digit on at least one side of
\* it; anything else raises ValueError (the model's strings hold no sign,
\* no exponent, no inf/nan).
FloatOf(s) ==
    LET t == Strip(s)
        parts == Split(t, ".")
        ip == parts[1]
        fp == IF Len(parts) = 2 THEN DropTrailingZeros(parts[2]) ELSE <<>>
    IN IF /\ Len(parts) <= 2
          /\ \A i \in 1..Len(parts) : AllDigits(parts[i])
          /\ \E i \in 1..Len(parts) : parts[i] # <<>>
       THEN PyFloat(DigitsVal(ip \o fp), Len(fp))
       ELSE Raise("ValueError")

----------------------------------------------------------------------------
(* class GlueWave *)

\* Attribute of an object that the code has not assigned yet
Unset == [type |-> "unset"]

\* GlueWave.__init__(vector, strobe_ps, hardware, metadata): hardware is a
\* str ("SLOT/MODULE/FIFO"), a list, or anything else (kept as None).  The
\* metadata argument is not stored: self.metadata is always a new {}.  A
\* dict is modelled as the sequence of its <<key, value>> pairs.
GlueWave__init__(vector, strobe_ps, hardware, metadata) ==
    LET hw == IF hardware.type = "str" THEN Split(hardware.val, "/")
              ELSE IF hardware.type = "list" THEN hardware.val
              ELSE <<>>
        base == [type |-> "GlueWave", vector |-> vector, strobe_ps |-> strobe_ps,
                 len |-> Len(vector), mask |-> 0, metadata |-> <<>>]
    IN IF hardware.type \in {"str", "list"}
       THEN IF Len(hw) < 3 THEN Raise("IndexError")       \* self.hardware[2]
            ELSE base @@
                 [hardware |-> PyList(hw),
                  hardware_str |-> PyStr(Join(hw, <<"/">>)),
                  fpga_name |-> PyStr(Join(SubSeq(hw, 1, 2), <<"/">>)),
                  fifo_name |-> PyStr(hw[3])]
       ELSE base @@ [hardware |-> None, hardware_str |-> None,
                     fpga_name |-> None, fifo_name |-> None]

GlueWave__eq__Meta(self, other) ==
    /\ other.type = "GlueWave"
    /\ self.vector = other.vector
    /\ self.hardware = other.hardware
    /\ PyEq(self.strobe_ps, other.strobe_ps)
    /\ self.metadata = other.metadata

\* GlueWave.__eq__(self, other)
GlueWave__eq__(self, other) ==
    IF other.type # "GlueWave" THEN FALSE
    ELSE IF /\ self.vector = other.vector
            /\ self.hardware = other.hardware
            /\ PyEq(self.strobe_ps, other.strobe_ps)
         THEN TRUE
         ELSE FALSE

\* Python's a | b, a & b and a & ~b on non-negative ints
RECURSIVE BitOr(_, _)
BitOr(a, b) ==
    IF a = 0 THEN b ELSE IF b = 0 THEN a
    ELSE (IF a % 2 = 1 \/ b % 2 = 1 THEN 1 ELSE 0) + 2 * BitOr(a \div 2, b \div 2)
RECURSIVE BitAnd(_, _)
BitAnd(a, b) ==
    IF a = 0 \/ b = 0 THEN 0
    ELSE (IF a % 2 = 1 /\ b % 2 = 1 THEN 1 ELSE 0) + 2 * BitAnd(a \div 2, b \div 2)
RECURSIVE BitAndNot(_, _)
BitAndNot(a, b) ==
    IF a = 0 THEN 0
    ELSE (IF a % 2 = 1 /\ b % 2 = 0 THEN 1 ELSE 0) + 2 * BitAndNot(a \div 2, b \div 2)

\* Python's list index: the position (from 1) that seq[t] denotes, 0 when
\* seq[t] raises IndexError; a negative t counts from the end
PyIndex(t, n) ==
    IF 0 <= t /\ t < n THEN t + 1
    ELSE IF t < 0 /\ t >= -n THEN n + t + 1
    ELSE 0

\* GlueWave.set_mask_bit(bit_pos, value): the wave it leaves
set_mask_bit(self, bit_pos, value) ==
    IF value = 1
    THEN [self EXCEPT !.mask = BitOr(self.mask, Pow2(bit_pos))]
    ELSE [self EXCEPT !.mask = BitAndNot(self.mask, Pow2(bit_pos))]

\* an apply_mask that keeps only the elements the mask changes
apply_mask_Filtering(self) ==
    [self EXCEPT !.vector = SelectSeq([i \in 1..Len(self.vector) |-> BitOr(self.vector[i], self.mask)], LAMBDA x : x # 0)]

apply_mask_Overwrite(self) ==
    [self EXCEPT !.vector = [i \in 1..Len(self.vector) |-> self.mask]]

\* GlueWave.apply_mask(): the wave it leaves (self.vector is a new list)
apply_mask(self) ==
    [self EXCEPT !.vector = [i \in 1..Len(self.vector) |-> BitOr(self.vector[i], self.mask)]]

set_bit_NoInvert(self, t, bit_pos, value) ==
    LET i == PyIndex(t, Len(self.vector))
    IN IF i = 0 THEN [ret |-> Raise("IndexError"), self |-> self]
       ELSE IF value = 1
       THEN [ret |-> None,
             self |-> [self EXCEPT !.vector[i] = BitOr(self.vector[i], Pow2(bit_pos))]]
       ELSE [ret |-> None,
             self |-> [self EXCEPT !.vector[i] = BitAnd(self.vector[i], Pow2(bit_pos))]]

\* GlueWave.set_bit(t, bit_pos, value): what it returns (None, or the
\* IndexError of self.vector[t]) and the wave it leaves
set_bit(self, t, bit_pos, value) ==
    LET i == PyIndex(t, Len(self.vector))
    IN IF i = 0 THEN [ret |-> Raise("IndexError"), self |-> self]
       ELSE IF value = 1
       THEN [ret |-> None,
             self |-> [self EXCEPT !.vector[i] = BitOr(self.vector[i], Pow2(bit_pos))]]
       ELSE [ret |-> None,
             self |-> [self EXCEPT !.vector[i] = BitAndNot(self.vector[i], Pow2(bit_pos))]]

\* GlueWave.get_trace(bit_pos)
get_trace(self, bit_pos) ==
    [i \in 1..Len(self.vector) |-> BitAnd(self.vector[i], Pow2(bit_pos)) > 0]

----------------------------------------------------------------------------
(* The Glue file codec: GlueConverter.write_glue / read_glue *)

AT == "@"
COMMA == ","
NL == <<"\n">>
STROBE == <<"S", "T", "R", "O", "B", "E">>
HARDWARE == <<"H", "A", "R", "D", "W", "A", "R", "E">>
STROBE_LINE == <<"/", "/", "S", "T", "R", "O", "B", "E", "_", "P", "I", "C", "O", "S", "E", "C", "O", "N", "D", "S", ":">>
HARDWARE_LINE == <<"/", "/", "H", "A", "R", "D", "W", "A", "R", "E", ":">>

\* "".join of a list of strings
RECURSIVE Concat(_)
Concat(parts) == IF parts = <<>> THEN <<>> ELSE Head(parts) \o Concat(Tail(parts))

CompressLoopCommaAt(glue_wave, i, temp) ==
    LET RECURSIVE L(_, _)
        L(j, t) ==
            IF j >= glue_wave.len THEN t
            ELSE IF glue_wave.vector[j + 1] = glue_wave.vector[j]
                 THEN L(j + 1, t \o <<<<COMMA>>, <<AT>>>>)
                 ELSE L(j + 1, t \o <<<<COMMA>>, IntToStr(glue_wave.vector[j + 1])>>)
    IN L(i, temp)

\* write_glue, the loop "for i in range(1, glue_wave.len)" from index i on,
\* temp being the list of pieces appended so far (vector[i] of the code is
\* vector[i + 1] here: sequences start at 1)
RECURSIVE CompressLoop(_, _, _)
CompressLoop(glue_wave, i, temp) ==
    IF i >= glue_wave.len THEN temp
    ELSE IF glue_wave.vector[i + 1] = glue_wave.vector[i]
         THEN CompressLoop(glue_wave, i + 1, Append(temp, <<AT>>))
         ELSE CompressLoop(glue_wave, i + 1,
                           temp \o <<<<COMMA>>, IntToStr(glue_wave.vector[i + 1])>>)

\* the first line write_glue builds (writestring)
WriteString(glue_wave, compress) ==
    IF compress
    THEN Concat(CompressLoop(glue_wave, 1, <<IntToStr(glue_wave.vector[1])>>))
    ELSE Join([i \in 1..Len(glue_wave.vector) |-> IntToStr(glue_wave.vector[i])],
              <<COMMA>>)

\* the "//KEY:VALUE" lines of the optional metadata
MetadataLines(metadata) ==
    [k \in 1..Len(metadata) |->
        <<"/", "/">> \o metadata[k][1] \o <<":">> \o metadata[k][2] \o NL]

WriteFile(fsys, name, lines) ==
    [n \in (DOMAIN fsys) \cup {name} |-> IF n = name THEN lines ELSE fsys[n]]

\* write_glue(glue_wave, output_file_name, compress): what it returns and
\* the file system it leaves.  With hardware None, "/".join raises TypeError
\* after the first two lines were written.
write_glue(fsys, glue_wave, output_file_name, compress) ==
    IF glue_wave = None \/ glue_wave.len < 1
    THEN [ret |-> PyInt(-1), fs |-> fsys]
    ELSE IF glue_wave.len > Len(glue_wave.vector)
    THEN [ret |-> Raise("IndexError"), fs |-> fsys]
    ELSE LET head == << WriteString(glue_wave, compress) \o NL,
                        STROBE_LINE \o Str(glue_wave.strobe_ps) \o NL >>
         IN IF glue_wave.hardware = None
            THEN [ret |-> Raise("TypeError"),
                  fs |-> WriteFile(fsys, output_file_name, head)]
            ELSE [ret |-> PyStr(output_file_name),
                  fs |-> WriteFile(fsys, output_file_name,
                            head
                            \o << HARDWARE_LINE
                                  \o Join(glue_wave.hardware.val, <<"/">>) \o NL >>
                            \o MetadataLines(glue_wave.metadata))]

RECURSIVE DecodeLoopShortRun(_, _, _, _)
DecodeLoopShortRun(data_entries, k, vector, i) ==
    IF k > Len(data_entries) THEN PyList(vector)
    ELSE LET entry == data_entries[k]
             base_entry == IntOf(Remove(entry, AT))
             n == Count(entry, AT)
         IN IF base_entry.type = "raise" THEN base_entry
            ELSE DecodeLoopShortRun(data_entries, k + 1,
                    [j \in 1..Len(vector) |->
                        IF j - 1 >= i /\ j - 1 < i + n
                        THEN base_entry.val ELSE vector[j]],
                    IF n = 0 THEN i + 1 ELSE i + n)

\* read_glue, the loop "for entry in data_entries" from entry k on: vector
\* is the preallocated list, i the next index to fill (0-based as in the
\* code).  int() raising ValueError ends the loop.
RECURSIVE DecodeLoop(_, _, _, _)
DecodeLoop(data_entries, k, vector, i) ==
    IF k > Len(data_entries) THEN PyList(vector)
    ELSE LET entry == data_entries[k]
         IN IF Count(entry, AT) > 0
            THEN LET base_entry == IntOf(Remove(entry, AT))
                     n == Count(entry, AT)
                 IN IF base_entry.type = "raise" THEN base_entry
                    ELSE DecodeLoop(data_entries, k + 1,
                            [j \in 1..Len(vector) |->
                                IF j - 1 >= i /\ j - 1 <= i + n
                                THEN base_entry.val ELSE vector[j]],
                            i + 1 + n)
            ELSE LET v == IntOf(entry)
                 IN IF v.type = "raise" THEN v
                    ELSE DecodeLoop(data_entries, k + 1,
                                    [vector EXCEPT ![i + 1] = v.val], i + 1)

\* read_glue, "Process the first line to get the entries": the vector, or
\* the ValueError raised
DecodeVector(line) ==
    LET datastring == Strip(line)
        data_entries == Split(datastring, COMMA)
        expected_len == Count(datastring, COMMA) + Count(datastring, AT) + 1
    IN DecodeLoop(data_entries, 1, [j \in 1..expected_len |-> 0], 0)

Last(s) == s[Len(s)]

\* read_glue, the loop "for line in lines" that picks up strobe_ps and
\* hardware: every line holding the text STROBE is parsed as the strobe,
\* every line holding HARDWARE as the hardware, the last one winning.
RECURSIVE ScanLines(_, _, _, _)
ScanLines(lines, k, hardware, strobe_ps) ==
    IF k > Len(lines) THEN [type |-> "ok", hardware |-> hardware, strobe_ps |-> strobe_ps]
    ELSE LET line == lines[k]
             val == Last(Split(Strip(line), ":"))
             s == IF Contains(line, STROBE) THEN FloatOf(val) ELSE strobe_ps
             h == IF Contains(line, HARDWARE) THEN PyStr(val) ELSE hardware
         IN IF s.type = "raise" THEN s ELSE ScanLines(lines, k + 1, h, s)

\* read_glue(glue_file_name): a GlueWave, None, or the exception raised
read_glue(conv, fsys, glue_file_name) ==
    IF glue_file_name.type = "GlueWave"
    THEN IF conv._log = None THEN Raise("AttributeError") ELSE glue_file_name
    ELSE IF glue_file_name.val \notin DOMAIN fsys THEN None      \* FileNotFoundError
    ELSE LET lines == fsys[glue_file_name.val]
         IN IF lines = <<>> THEN Raise("IndexError")              \* lines[0]
            ELSE LET vector == DecodeVector(lines[1])
                 IN IF vector.type = "raise" THEN None            \* except ValueError
                    ELSE LET meta == ScanLines(lines, 1, None, None)
                         IN IF meta.type = "raise" THEN meta
                            ELSE GlueWave__init__(vector.val, meta.strobe_ps,
                                                  meta.hardware, <<>>)

----------------------------------------------------------------------------
(* class GlueConverter: construction *)

Logger == [type |-> "logger"]

\* GlueConverter.__init__(iospec_file=None, logger): the attributes that
\* only parse_iospec_file assigns do not exist yet
GlueConverter__init__NoFile(logger) ==
    [loaded_iospec_file |-> FALSE, _log |-> logger, verbosity |-> 0,
     IOs |-> <<>>,
     Input_IOs |-> Unset, Output_IOs |-> Unset, Multiplexed_IOs |-> Unset,
     IO_dir |-> Unset, IO_pos |-> Unset, IO_default |-> Unset,
     IO_hardware |-> Unset, IO_hardware_count |-> Unset]

----------------------------------------------------------------------------
(* Inputs of the codec scenario *)

\* hardware paths: the source's example, the unit test's, and a path with
\* the text STROBE in its last component
HW_SE_IO == <<"P", "X", "I", "1", "S", "l", "o", "t", "5", "/", "N", "I", "6", "5", "8", "3", "/", "s", "e", "_", "i", "o">>
HW_CARIBOU == <<<<"C", "a", "r", "i", "b", "o", "u">>, <<"a", "p", "g">>, <<"w", "r", "i", "t", "e">>>>
HW_STROBE_IO == <<"P", "X", "I", "1", "S", "l", "o", "t", "5", "/", "N", "I", "6", "5", "8", "3", "/", "S", "T", "R", "O", "B", "E", "_", "i", "o">>
TEST_GLUE == <<"t", "e", "s", "t", ".", "g", "l", "u", "e">>
EXT_GLUE == <<"e", "x", "t", ".", "g", "l", "u", "e">>

\* vector elements: one-digit and two-digit numbers, enough of them for
\* all-distinct vectors
Elems == {0, 1, MaxVal - 1, MaxVal}
Vectors == UNION {[1..n -> Elems] : n \in 0..MaxLen}
Strobes == {PyInt(25000), PyFloat(100000, 0), PyFloat(25, 1), None}
Hardwares == {PyStr(HW_SE_IO), PyList(HW_CARIBOU), PyStr(HW_STROBE_IO), None}
Metadatas == {<<>>, <<<<<<"G", "L", "U", "E", "_", "T", "I", "M", "E", "S", "T", "E", "P", "S">>, <<"3">>>>>>}

\* first lines of hand-made Glue files: every string over these characters
FirstLineChars == {"5", "1", COMMA, AT, "x"}
FirstLines == UNION {[1..n -> FirstLineChars] : n \in 0..MaxLineLen}
MetaTail == << STROBE_LINE \o Str(PyFloat(25, 1)) \o NL, HARDWARE_LINE \o HW_SE_IO \o NL >>
\* constructor arguments: every vector with every strobe and hardware; the
\* metadata argument varied on a few vectors only (it is not stored)
WaveArgs == (Vectors \X Strobes \X Hardwares \X {<<>>})
            \cup ({<<5>>, <<5, 5, 5, 5>>} \X Strobes \X Hardwares \X Metadatas)

\* further //KEY:VALUE lines: //K:1, //STROBE_W:5, //HARDWARE_REV:2
ExtraLines ==
    {<<"/", "/", "K", ":", "1">> \o NL,
     <<"/", "/">> \o STROBE \o <<"_", "W", ":", "5">> \o NL,
     <<"/", "/">> \o HARDWARE \o <<"_", "R", "E", "V", ":", "2">> \o NL}

\* hand-made files: empty, a first line alone, a first line with the two
\* mandatory lines, and the latter with a further line after or before them
ExternalFiles == {<<>>} \cup {<<l \o NL>> : l \in FirstLines}
                 \cup {<<l \o NL>> \o MetaTail : l \in FirstLines}
                 \cup {<< <<"5", AT>> \o NL >> \o MetaTail \o <<x>> : x \in ExtraLines}
                 \cup {<< <<"5", AT>> \o NL, x >> \o MetaTail : x \in ExtraLines}

----------------------------------------------------------------------------
(* Actions: the calls a client makes *)

\* w = GlueWave(vector, strobe_ps, hardware, metadata)
NewGlueWave(vector, strobe_ps, hardware, metadata) ==
    /\ LET w == GlueWave__init__(vector, strobe_ps, hardware, metadata)
       IN /\ wave1' = IF w.type = "raise" THEN wave1 ELSE w
          /\ ret' = w
    /\ op' = [name |-> "GlueWave", metadata |-> metadata]
    /\ UNCHANGED <<gc, wave2, fs, nedits>>

\* gc.write_glue(wave1, output_file_name, compress)
WriteGlue(output_file_name, compress) ==
    /\ LET r == write_glue(fs, wave1, output_file_name, compress)
       IN /\ fs' = r.fs
          /\ ret' = r.ret
    /\ op' = [name |-> "write_glue", wave |-> wave1, file |-> output_file_name,
              compress |-> compress]
    /\ UNCHANGED <<gc, wave1, wave2, nedits>>

\* wave2 = gc.read_glue(glue_file_name), glue_file_name a file name or,
\* by misuse, a GlueWave
ReadGlue(glue_file_name) ==
    /\ LET r == read_glue(gc, fs, glue_file_name)
       IN /\ ret' = r
          /\ wave2' = IF r.type = "raise" THEN wave2 ELSE r
    /\ op' = [name |-> "read_glue", arg |-> glue_file_name]
    /\ UNCHANGED <<gc, wave1, fs, nedits>>

\* The environment supplies a hand-made file
PutFile(name, lines) ==
    /\ fs' = WriteFile(fs, name, lines)
    /\ op' = [name |-> "put_file", file |-> name]
    /\ ret' = None
    /\ UNCHANGED <<gc, wave1, wave2, nedits>>

----------------------------------------------------------------------------
(* Specification of the codec scenario: one wave is built, written and     *)
(* read back; hand-made files are read.                                    *)

NoFiles == [n \in {} |-> <<>>]

InitCodec ==
    /\ gc \in {GlueConverter__init__NoFile(lg) : lg \in {Logger, None}}
    /\ wave1 = None
    /\ wave2 = None
    /\ fs = NoFiles
    /\ op = [name |-> "GlueConverter"]
    /\ ret = None
    /\ nedits = 0

NextCodec ==
    \/ /\ wave1 = None
       /\ DOMAIN fs = {}
       /\ \E a \in WaveArgs : NewGlueWave(a[1], a[2], a[3], a[4])
    \/ \E c \in BOOLEAN : WriteGlue(TEST_GLUE, c)
    \/ \E n \in {TEST_GLUE, EXT_GLUE} : ReadGlue(PyStr(n))
    \/ wave2 # None /\ ReadGlue(wave2)
    \/ /\ wave1 = None
       /\ EXT_GLUE \notin DOMAIN fs
       /\ \E l \in ExternalFiles : PutFile(EXT_GLUE, l)

SpecCodec == InitCodec /\ [][NextCodec]_vars

----------------------------------------------------------------------------
(* Claims about the codec, checked under SpecCodec *)

\* a hardware path of three non-empty components free of '/', ':' and blanks
WellFormedHardware(w) ==
    /\ w.hardware # None
    /\ Len(w.hardware.val) = 3
    /\ \A k \in 1..3 :
          /\ w.hardware.val[k] # <<>>
          /\ \A c \in {"/", ":", " ", "\n", "\t"} : Count(w.hardware.val[k], c) = 0

Written == op.name = "write_glue" /\ op.wave # None

\* C1: for every GlueWave w with a well-formed hardware path and a strobe
\* period that write_glue has written, read_glue of the file returns a wave
\* equal to w (same vector, same hardware, same strobe period).
C1_RoundTrip ==
    (/\ Written
     /\ ret.type = "str"
     /\ WellFormedHardware(op.wave)
     /\ op.wave.strobe_ps # None)
    => LET r == read_glue(gc, fs, ret)
       IN r.type = "GlueWave" /\ GlueWave__eq__(r, op.wave)

\* C2 as stated: for every sequence v of non-negative integers, the empty
\* one included, write_glue encodes v and the vector read_glue decodes from
\* that first line is exactly v.
C2_CodecAnyLength ==
    Written
    => /\ op.file \in DOMAIN fs
       /\ DecodeVector(fs[op.file][1]) = PyList(op.wave.vector)

\* C2 (amended): for every non-empty sequence v of non-negative integers
\* (length 1, all-equal, all-distinct), compressed or not, write_glue
\* encodes v and the vector read_glue decodes from that first line is
\* exactly v.
C2_CodecNonEmpty ==
    (Written /\ Len(op.wave.vector) >= 1)
    => /\ op.file \in DOMAIN fs
       /\ DecodeVector(fs[op.file][1]) = PyList(op.wave.vector)

\* C2 witness: a vector holding a run and a change of a two-digit value has
\* been written compressed
C2_Witness ==
    /\ Written
    /\ op.compress
    /\ op.wave.vector = <<MaxVal, MaxVal, MaxVal - 1>>
    /\ op.file \in DOMAIN fs

\* the first line as the specification words it: the comma-separated tokens
\* of v, a value identical to its predecessor replaced by '@'
CommaAtLine(v) ==
    Join([i \in 1..Len(v) |->
            IF i > 1 /\ v[i] = v[i - 1] THEN <<AT>> ELSE IntToStr(v[i])],
         <<COMMA>>)

\* the first line in run form: the first value, then for every later value
\* '@' alone when it repeats its predecessor, ',' and the number otherwise
RunLine(v) ==
    Concat([i \in 1..Len(v) |->
              IF i = 1 THEN IntToStr(v[i])
              ELSE IF v[i] = v[i - 1] THEN <<AT>>
              ELSE <<COMMA>> \o IntToStr(v[i])])

CompressedWrite == Written /\ op.compress /\ ret.type = "str"

\* C3 as stated: the first line write_glue emits is the comma-separated
\* token list with '@' for every repeated value (5,5,5,5 is '5,@,@,@'), and
\* read_glue decodes that line to the original vector.
C3_CommaAtFormat ==
    CompressedWrite
    => /\ fs[op.file][1] = CommaAtLine(op.wave.vector) \o NL
       /\ DecodeVector(CommaAtLine(op.wave.vector) \o NL) = PyList(op.wave.vector)

\* C3 (amended): the first line write_glue emits holds the first value and,
\* for every later value, '@' appended without a comma when it repeats its
\* predecessor and ',' followed by the number otherwise (5,5,5,5 is
\* '5@@@'); read_glue decodes this line to the original vector.
C3_RunFormat ==
    CompressedWrite
    => /\ fs[op.file][1] = RunLine(op.wave.vector) \o NL
       /\ DecodeVector(RunLine(op.wave.vector) \o NL) = PyList(op.wave.vector)

\* C3 witness: 5,5,5,5 has been written as the line '5@@@'
C3_Witness ==
    /\ CompressedWrite
    /\ op.wave.vector = <<5, 5, 5, 5>>
    /\ fs[op.file][1] = <<"5", AT, AT, AT, "\n">>

\* C4: read_glue of a file name returns None, and does not raise, when the
\* file is missing, when it is empty, and when its first line holds a token
\* that is neither a number nor a number followed by '@'s.
C4_ReadFailsGracefully ==
    (/\ op.name = "read_glue"
     /\ op.arg.type = "str"
     /\ \/ op.arg.val \notin DOMAIN fs
        \/ fs[op.arg.val] = <<>>
        \/ DecodeVector(fs[op.arg.val][1]).type = "raise")
    => ret = None

----------------------------------------------------------------------------
(* GlueWave scenarios: comparing two waves, editing one wave *)

\* the unit test's vector and a path given as a list
TEST_WAVES_VECTOR == <<2, 3, 0, 5, 4, 5, 6, 7>>
HW_SE_IO_LIST == Split(HW_SE_IO, "/")

EqHardwares == {PyStr(HW_SE_IO), PyList(HW_SE_IO_LIST), PyList(HW_CARIBOU), None}
EqStrobes == {PyInt(25000), PyFloat(25000, 0), PyFloat(25, 1), None}
EqVectors == {<<>>, <<5>>, <<5, 5>>, <<5, MaxVal>>}
EqArgs == EqVectors \X EqStrobes \X EqHardwares \X {<<>>}
EqMetadata == <<<<<<"K">>, <<"1">>>>>>
NotGlueWaves == {None, PyInt(-1), PyList(<<5>>)}

\* wave2 = GlueWave(vector, strobe_ps, hardware, metadata)
NewGlueWave2(vector, strobe_ps, hardware, metadata) ==
    /\ LET w == GlueWave__init__(vector, strobe_ps, hardware, metadata)
       IN /\ wave2' = IF w.type = "raise" THEN wave2 ELSE w
          /\ ret' = w
    /\ op' = [name |-> "GlueWave", metadata |-> metadata]
    /\ UNCHANGED <<gc, wave1, fs, nedits>>

\* Client code fills the metadata map of a wave it holds:
\* wave.metadata[key] = value
SetMetadata(which, metadata) ==
    /\ IF which = 1
       THEN wave1' = [wave1 EXCEPT !.metadata = metadata] /\ UNCHANGED wave2
       ELSE wave2' = [wave2 EXCEPT !.metadata = metadata] /\ UNCHANGED wave1
    /\ op' = [name |-> "set_metadata", which |-> which]
    /\ ret' = None
    /\ UNCHANGED <<gc, fs, nedits>>

\* wave1 == other
Eq(other) ==
    /\ ret' = PyBool(GlueWave__eq__(wave1, other))
    /\ op' = [name |-> "__eq__", other |-> other]
    /\ UNCHANGED <<gc, wave1, wave2, fs, nedits>>

NextEq ==
    \/ /\ wave1 = None
       /\ \E a \in EqArgs : NewGlueWave(a[1], a[2], a[3], a[4])
    \/ /\ wave1 # None /\ wave2 = None
       /\ \E a \in EqArgs : NewGlueWave2(a[1], a[2], a[3], a[4])
    \/ /\ wave1 # None /\ wave2 # None
       /\ \E which \in {1, 2} : SetMetadata(which, EqMetadata)
    \/ /\ wave1 # None /\ wave2 # None
       /\ Eq(wave2)
    \/ /\ wave1 # None
       /\ \E o \in NotGlueWaves : Eq(o)

SpecEq == InitCodec /\ [][NextEq]_vars

\* wave1.set_bit(t, bit_pos, value)
SetBit(t, bit_pos, value) ==
    /\ LET r == set_bit(wave1, t, bit_pos, value)
       IN /\ wave1' = r.self
          /\ ret' = r.ret
    /\ op' = [name |-> "set_bit", t |-> t, bit_pos |-> bit_pos, value |-> value,
              before |-> wave1]
    /\ nedits' = nedits + 1
    /\ UNCHANGED <<gc, wave2, fs>>

\* wave1.set_mask_bit(bit_pos, value)
SetMaskBit(bit_pos, value) ==
    /\ wave1' = set_mask_bit(wave1, bit_pos, value)
    /\ ret' = None
    /\ op' = [name |-> "set_mask_bit", bit_pos |-> bit_pos, value |-> value,
              before |-> wave1]
    /\ nedits' = nedits + 1
    /\ UNCHANGED <<gc, wave2, fs>>

\* wave1.apply_mask()
ApplyMask ==
    /\ wave1' = apply_mask(wave1)
    /\ ret' = None
    /\ op' = [name |-> "apply_mask", before |-> wave1]
    /\ nedits' = nedits + 1
    /\ UNCHANGED <<gc, wave2, fs>>

\* wave1.get_trace(bit_pos)
GetTrace(bit_pos) ==
    /\ ret' = PyList(get_trace(wave1, bit_pos))
    /\ op' = [name |-> "get_trace", bit_pos |-> bit_pos, before |-> wave1]
    /\ UNCHANGED <<gc, wave1, wave2, fs, nedits>>

\* vectors to edit: every short vector of MaxBit+1-bit elements, and the
\* unit test's vector
EditVectors == UNION {[1..n -> 0..(Pow2(MaxBit + 1) - 1)] : n \in 0..(MaxLen - 1)}
               \cup {TEST_WAVES_VECTOR}
EditArgs == EditVectors \X {PyFloat(100000, 0)} \X {PyStr(HW_SE_IO)} \X {<<>>}
BitValues == {0, 1, 2}

NextWave ==
    \/ /\ wave1 = None
       /\ \E a \in EditArgs : NewGlueWave(a[1], a[2], a[3], a[4])
    \/ /\ wave1 # None /\ nedits < MaxEdits
       /\ \E t \in (-(wave1.len + 1))..wave1.len, b \in 0..MaxBit, v \in BitValues :
             SetBit(t, b, v)
    \/ /\ wave1 # None /\ nedits < MaxEdits
       /\ \E b \in 0..MaxBit, v \in BitValues : SetMaskBit(b, v)
    \/ /\ wave1 # None /\ nedits < MaxEdits
       /\ ApplyMask
    \/ /\ wave1 # None
       /\ \E b \in 0..MaxBit : GetTrace(b)

SpecWave == InitCodec /\ [][NextWave]_vars

----------------------------------------------------------------------------
(* Claims about GlueWave, checked under SpecEq and SpecWave *)

\* C5: two GlueWaves compare equal if and only if their vector, hardware
\* group and strobe period are all equal, whatever their metadata maps; a
\* GlueWave never equals a value that is not a GlueWave.
C5_Equality ==
    op.name = "__eq__"
    => ret = PyBool(/\ op.other.type = "GlueWave"
                    /\ wave1.vector = op.other.vector
                    /\ wave1.hardware = op.other.hardware
                    /\ PyEq(wave1.strobe_ps, op.other.strobe_ps))

\* C5 witness: two waves with different metadata maps compared equal
C5_Witness ==
    /\ op.name = "__eq__"
    /\ op.other.type = "GlueWave"
    /\ wave1.metadata # op.other.metadata
    /\ ret = PyBool(TRUE)

Bit(x, p) == (x \div Pow2(p)) % 2

ValidSetBit ==
    /\ op.name = "set_bit"
    /\ 0 <= op.t /\ op.t < op.before.len

\* C6: set_bit(t, bit_pos, value) on a valid timestep t returns normally,
\* makes bit bit_pos of vector[t] 1 when value is 1 and 0 otherwise, and
\* changes nothing else: the other bits of vector[t], the other elements,
\* len, strobe period, hardware, mask and metadata.  In particular
\* set_bit(4,0,1) then set_bit(5,0,0) turns [2,3,0,5,4,5,6,7] into
\* [2,3,0,5,5,5,6,7] and then into [2,3,0,5,5,4,6,7].
C6_SetBit ==
    /\ ValidSetBit
       => LET old == op.before.vector[op.t + 1]
              new == wave1.vector[op.t + 1]
          IN /\ ret = None
             /\ Bit(new, op.bit_pos) = (IF op.value = 1 THEN 1 ELSE 0)
             /\ new % Pow2(op.bit_pos) = old % Pow2(op.bit_pos)
             /\ new \div Pow2(op.bit_pos + 1) = old \div Pow2(op.bit_pos + 1)
             /\ Len(wave1.vector) = Len(op.before.vector)
             /\ \A i \in 1..Len(wave1.vector) :
                   i # op.t + 1 => wave1.vector[i] = op.before.vector[i]
             /\ [wave1 EXCEPT !.vector = op.before.vector] = op.before
    /\ (/\ ValidSetBit
        /\ op.before.vector = TEST_WAVES_VECTOR
        /\ op.t = 4 /\ op.bit_pos = 0 /\ op.value = 1)
       => wave1.vector = <<2, 3, 0, 5, 5, 5, 6, 7>>
    /\ (/\ ValidSetBit
        /\ op.before.vector = <<2, 3, 0, 5, 5, 5, 6, 7>>
        /\ op.t = 5 /\ op.bit_pos = 0 /\ op.value = 0)
       => wave1.vector = <<2, 3, 0, 5, 5, 4, 6, 7>>

\* C6 witness: the unit test's two edits have been made
C6_Witness ==
    /\ ValidSetBit
    /\ nedits = 2
    /\ op.before.vector = <<2, 3, 0, 5, 5, 5, 6, 7>>
    /\ op.t = 5 /\ op.bit_pos = 0 /\ op.value = 0
    /\ wave1.vector = <<2, 3, 0, 5, 5, 4, 6, 7>>

----------------------------------------------------------------------------
(* GlueConverter.parse_iospec_file *)

\* a dict keyed by str is a function on its keys
DictPut(d, k, v) == [x \in (DOMAIN d) \cup {k} |-> IF x = k THEN v ELSE d[x]]
Values(d) == {d[k] : k \in DOMAIN d}
InSeq(x, s) == \E i \in 1..Len(s) : s[i] = x

\* s.split(): the maximal runs of non-blank characters
RECURSIVE SplitWSFrom(_, _)
SplitWSFrom(s, cur) ==
    IF s = <<>> THEN (IF cur = <<>> THEN <<>> ELSE <<cur>>)
    ELSE IF IsSpace(Head(s))
    THEN (IF cur = <<>> THEN <<>> ELSE <<cur>>) \o SplitWSFrom(Tail(s), <<>>)
    ELSE SplitWSFrom(Tail(s), Append(cur, Head(s)))
SplitWS(s) == SplitWSFrom(s, <<>>)

END == <<"E", "N", "D">>
COMMENT == <<"/", "/">>

\* One signal line "{name},{I/O},{position}[,{default}]": the tables it
\* leaves and the exception it raises, if any.  The tables are filled in
\* the code's order, so an exception leaves the earlier entries behind.
ParseSignal(g, current_hw, line) ==
    LET line_tokens == Split(line, ",")
        sig_name == line_tokens[1]
        g1 == [g EXCEPT !.IOs = Append(@, sig_name)]
    IN IF Len(line_tokens) < 2 THEN [gc |-> g1, exc |-> Raise("IndexError")]
       ELSE
       LET g2 == [g1 EXCEPT !.IO_dir = DictPut(@, sig_name, line_tokens[2])]
           g3 == IF line_tokens[2] = <<"I">>
                 THEN [g2 EXCEPT !.Input_IOs = Append(@, sig_name)]
                 ELSE [g2 EXCEPT !.Output_IOs = Append(@, sig_name)]
       IN IF Len(line_tokens) < 3 THEN [gc |-> g3, exc |-> Raise("IndexError")]
          ELSE
          LET pos == IntOf(line_tokens[3])
          IN IF pos.type = "raise" THEN [gc |-> g3, exc |-> Raise("Exception")]
             ELSE
             LET g4 == [g3 EXCEPT !.IO_pos = DictPut(@, sig_name, pos.val),
                                  !.IO_hardware = DictPut(@, sig_name, current_hw)]
                 def == IF Len(line_tokens) > 3 THEN IntOf(line_tokens[4]) ELSE PyInt(0)
             IN IF def.type = "raise" THEN [gc |-> g4, exc |-> Raise("Exception")]
                ELSE [gc |-> [g4 EXCEPT !.IO_default = DictPut(@, sig_name, def.val)],
                      exc |-> None]

\* the loop "for line in iospec_lines", from line k on
RECURSIVE ParseLines(_, _, _, _)
ParseLines(g, current_hw, iospec_lines, k) ==
    IF k > Len(iospec_lines) THEN [gc |-> g, exc |-> None]
    ELSE
    LET line == iospec_lines[k]
    IN IF ~(Len(line) > 1 /\ ~StartsWith(line, COMMENT))
       THEN ParseLines(g, current_hw, iospec_lines, k + 1)
       ELSE IF StartsWith(line, HARDWARE)
       THEN LET toks == SplitWS(line)
            IN IF Len(toks) < 2 THEN [gc |-> g, exc |-> Raise("IndexError")]
               ELSE ParseLines([g EXCEPT !.IO_hardware_count = @ + 1],
                               PyStr(toks[2]), iospec_lines, k + 1)
       ELSE IF StartsWith(line, END)
       THEN ParseLines(g, PyStr(<<>>), iospec_lines, k + 1)
       ELSE IF current_hw # PyStr(<<>>)
       THEN LET r == ParseSignal(g, current_hw, line)
            IN IF r.exc # None THEN r
               ELSE ParseLines(r.gc, current_hw, iospec_lines, k + 1)
       ELSE [gc |-> g, exc |-> Raise("Exception")]

\* the signals multiplexed with io1, in the order of self.IOs
Dups(g, io1) ==
    SelectSeq(g.IOs, LAMBDA io2 : /\ io1 # io2
                                  /\ g.IO_pos[io1] = g.IO_pos[io2]
                                  /\ g.IO_hardware[io1] = g.IO_hardware[io2])

RECURSIVE MuxLoopNoSkip(_, _, _)
MuxLoopNoSkip(g, k, mux) ==
    IF k > Len(g.IOs) THEN mux
    ELSE LET io1 == g.IOs[k]
         IN IF Dups(g, io1) # <<>>
            THEN MuxLoopNoSkip(g, k + 1, Append(mux, <<io1>> \o Dups(g, io1)))
            ELSE MuxLoopNoSkip(g, k + 1, mux)

\* "Catch any multiplexed IOs early": the loop "for io1 in self.IOs", from
\* the k-th signal on
RECURSIVE MuxLoop(_, _, _)
MuxLoop(g, k, mux) ==
    IF k > Len(g.IOs) THEN mux
    ELSE LET io1 == g.IOs[k]
         IN IF \E i \in 1..Len(mux) : InSeq(io1, mux[i])
            THEN MuxLoop(g, k + 1, mux)
            ELSE IF Dups(g, io1) # <<>>
            THEN MuxLoop(g, k + 1, Append(mux, <<io1>> \o Dups(g, io1)))
            ELSE MuxLoop(g, k + 1, mux)

\* parse_iospec_file(iospec_file): the converter it leaves and what it
\* returns (None) or raises
parse_iospec_file(g, fsys, iospec_file) ==
    IF iospec_file.val \notin DOMAIN fsys
    THEN [gc |-> g, ret |-> Raise("FileNotFoundError")]
    ELSE
    LET g0 == [g EXCEPT !.IOs = <<>>, !.Input_IOs = <<>>, !.Output_IOs = <<>>,
                        !.Multiplexed_IOs = <<>>, !.IO_dir = <<>>, !.IO_pos = <<>>,
                        !.IO_default = <<>>, !.IO_hardware = <<>>,
                        !.IO_hardware_count = 0]
        r == ParseLines(g0, None, fsys[iospec_file.val], 1)
    IN IF r.exc # None THEN [gc |-> r.gc, ret |-> r.exc]
       ELSE [gc |-> [r.gc EXCEPT !.Multiplexed_IOs = MuxLoop(r.gc, 1, <<>>),
                                 !.loaded_iospec_file = TRUE],
             ret |-> None]

\* GlueConverter.__init__(iospec_file, logger)
GlueConverter__init__(fsys, iospec_file, logger) ==
    IF iospec_file = None
    THEN [gc |-> GlueConverter__init__NoFile(logger), ret |-> None]
    ELSE parse_iospec_file(GlueConverter__init__NoFile(logger), fsys, iospec_file)

----------------------------------------------------------------------------
(* GlueConverter.dict2Glue; waves_dict is the sequence of its            *)
(* <<key, sequence>> items in insertion order                             *)

GENPATTERN_TXT == <<"g", "e", "n", "p", "a", "t", "t", "e", "r", "n", ".", "t", "x", "t">>
GEN_GLUE == <<"_", "g", "e", "n", ".", "g", "l", "u", "e">>
DEFAULT_STROBE_PS == PyFloat(100000, 0)    \* 1/10e6 * 1e12
GLUE_TIMESTEPS == <<"G", "L", "U", "E", "_", "T", "I", "M", "E", "S", "T", "E", "P", "S">>

\* s.replace(old, new), old and new one character each
Replace(s, old, new) == [i \in 1..Len(s) |-> IF s[i] = old THEN new ELSE s[i]]

MaxOf(S) == CHOOSE m \in S : \A x \in S : x <= m

\* self._log.error(...) / self._log.warning(...)
LogCall(g) == IF g._log = None THEN Raise("AttributeError") ELSE None

\* "(1) Attempt to infer hardware if necessary", from the k-th key on
RECURSIVE InferHardware(_, _, _, _)
InferHardware(g, waves_dict, k, hardware_str) ==
    IF k > Len(waves_dict) THEN [hardware_str |-> hardware_str, ret |-> None]
    ELSE
    LET key == waves_dict[k][1]
    IN IF key \notin DOMAIN g.IO_hardware
       THEN [hardware_str |-> hardware_str, ret |-> Raise("KeyError")]
       ELSE
       LET hw == IF hardware_str = None THEN g.IO_hardware[key] ELSE hardware_str
       IN IF g.IO_hardware[key] # hw
          THEN [hardware_str |-> hw,
                ret |-> IF LogCall(g) # None THEN LogCall(g) ELSE PyInt(-1)]
          ELSE InferHardware(g, waves_dict, k + 1, hw)

RECURSIVE PackLoopNoHold(_, _, _, _)
PackLoopNoHold(g, waves_dict, k, vector) ==
    IF k > Len(waves_dict) THEN [vector |-> vector, ret |-> None]
    ELSE
    LET key == waves_dict[k][1]
        sig == waves_dict[k][2]
        signal_len == Len(sig)
    IN IF key \notin DOMAIN g.IO_pos THEN [vector |-> vector, ret |-> Raise("KeyError")]
       ELSE IF Len(vector) > 0 /\ signal_len = 0
       THEN [vector |-> vector, ret |-> Raise("IndexError")]
       ELSE PackLoopNoHold(g, waves_dict, k + 1,
               [i \in 1..Len(vector) |->
                   BitOr(vector[i],
                         (IF i <= signal_len THEN sig[i] ELSE 0)
                         * Pow2(g.IO_pos[key]))])

\* "(2) ... enter appropriate bits": the loop "for key in waves_dict.keys()",
\* from the k-th key on; an empty sequence next to a longer one raises
\* IndexError (waves_dict[key][-1])
RECURSIVE PackLoop(_, _, _, _)
PackLoop(g, waves_dict, k, vector) ==
    IF k > Len(waves_dict) THEN [vector |-> vector, ret |-> None]
    ELSE
    LET key == waves_dict[k][1]
        sig == waves_dict[k][2]
        signal_len == Len(sig)
    IN IF key \notin DOMAIN g.IO_pos THEN [vector |-> vector, ret |-> Raise("KeyError")]
       ELSE IF Len(vector) > 0 /\ signal_len = 0
       THEN [vector |-> vector, ret |-> Raise("IndexError")]
       ELSE PackLoop(g, waves_dict, k + 1,
               [i \in 1..Len(vector) |->
                   BitOr(vector[i],
                         (IF i <= signal_len THEN sig[i] ELSE sig[signal_len])
                         * Pow2(g.IO_pos[key]))])

\* the lines of genpattern.txt
GenPattern(waves_dict) ==
    [k \in 1..Len(waves_dict) |->
        waves_dict[k][1] \o <<":">>
        \o Concat([i \in 1..Len(waves_dict[k][2]) |-> IntToStr(waves_dict[k][2][i])])
        \o NL]

\* dict2Glue(waves_dict, hardware_str, output_mode) with the default
\* bit_clock_freq: what it returns or raises and the file system it leaves
dict2Glue(g, fsys, waves_dict, hardware_str, output_mode) ==
    IF \E k \in 1..Len(waves_dict) : ~InSeq(waves_dict[k][1], g.IOs)
    THEN [ret |-> IF LogCall(g) # None THEN LogCall(g) ELSE PyInt(-1), fs |-> fsys]
    ELSE
    LET inf == InferHardware(g, waves_dict, 1, hardware_str)
    IN IF inf.ret # None THEN [ret |-> inf.ret, fs |-> fsys]
       ELSE IF waves_dict = <<>> THEN [ret |-> Raise("ValueError"), fs |-> fsys]
       ELSE
       LET max_pattern_len == MaxOf({Len(waves_dict[k][2]) : k \in 1..Len(waves_dict)})
           packed == PackLoop(g, waves_dict, 1, [i \in 1..max_pattern_len |-> 0])
       IN IF packed.ret # None THEN [ret |-> packed.ret, fs |-> fsys]
          ELSE
          LET fs1 == IF output_mode \in {1, 3}
                     THEN WriteFile(fsys, GENPATTERN_TXT, GenPattern(waves_dict))
                     ELSE fsys
              glue_wave == GlueWave__init__(packed.vector, DEFAULT_STROBE_PS,
                                            inf.hardware_str, <<>>)
          IN IF glue_wave.type = "raise" THEN [ret |-> glue_wave, fs |-> fs1]
             ELSE IF output_mode \in {2, 3}
             THEN IF inf.hardware_str = None
                  THEN [ret |-> Raise("AttributeError"), fs |-> fs1]
                  ELSE [ret |-> glue_wave,
                        fs |-> write_glue(fs1, glue_wave,
                                  Replace(inf.hardware_str.val, "/", "_") \o GEN_GLUE,
                                  TRUE).fs]
             ELSE [ret |-> glue_wave, fs |-> fs1]

----------------------------------------------------------------------------
(* GlueConverter.ascii2Glue *)

\* the loop "for line in ascii_lines", from line k on
RECURSIVE ReadBitstrings(_, _, _)
ReadBitstrings(ascii_lines, k, bitstrings) ==
    IF k > Len(ascii_lines) THEN [bitstrings |-> bitstrings, ret |-> None]
    ELSE LET x == Split(ascii_lines[k], ":")
         IN IF Len(x) < 2 THEN [bitstrings |-> bitstrings, ret |-> Raise("IndexError")]
            ELSE ReadBitstrings(ascii_lines, k + 1,
                                DictPut(bitstrings, Strip(x[1]), Strip(x[2])))

\* list.remove(x) when x is in the list
RemoveFirst(s, x) ==
    IF ~InSeq(x, s) THEN s
    ELSE LET i == CHOOSE i \in 1..Len(s) : s[i] = x /\ \A j \in 1..(i - 1) : s[j] # x
         IN SubSeq(s, 1, i - 1) \o SubSeq(s, i + 1, Len(s))

\* the first loop over one muxed_io_set: which signal of the set the file
\* uses; err when it uses two
RECURSIVE PickIO(_, _, _, _)
PickIO(muxed_io_set, k, keys, io_to_use) ==
    IF k > Len(muxed_io_set) THEN [io_to_use |-> io_to_use, err |-> FALSE]
    ELSE IF muxed_io_set[k] \in keys
    THEN IF io_to_use = None
         THEN PickIO(muxed_io_set, k + 1, keys, PyStr(muxed_io_set[k]))
         ELSE [io_to_use |-> io_to_use, err |-> TRUE]
    ELSE PickIO(muxed_io_set, k + 1, keys, io_to_use)

\* the second loop over one muxed_io_set: IOs_to_Plot.remove(io)
RECURSIVE DropUnused(_, _, _, _)
DropUnused(muxed_io_set, k, io_to_use, IOs_to_Plot) ==
    IF k > Len(muxed_io_set) THEN IOs_to_Plot
    ELSE DropUnused(muxed_io_set, k + 1, io_to_use,
                    IF PyStr(muxed_io_set[k]) # io_to_use
                    THEN RemoveFirst(IOs_to_Plot, muxed_io_set[k])
                    ELSE IOs_to_Plot)

\* the loop "for muxed_io_set in self.Multiplexed_IOs", from the k-th set on
RECURSIVE MuxCheck(_, _, _, _)
MuxCheck(Multiplexed_IOs, k, keys, IOs_to_Plot) ==
    IF k > Len(Multiplexed_IOs) THEN [IOs_to_Plot |-> IOs_to_Plot, err |-> FALSE]
    ELSE LET p == PickIO(Multiplexed_IOs[k], 1, keys, None)
         IN IF p.err THEN [IOs_to_Plot |-> IOs_to_Plot, err |-> TRUE]
            ELSE MuxCheck(Multiplexed_IOs, k + 1, keys,
                          DropUnused(Multiplexed_IOs[k], 1, p.io_to_use, IOs_to_Plot))

PlotBitsNoTicks(w, b, io_pos, ticks_per_bit) ==
    [w EXCEPT !.vector =
        [j \in 1..Len(w.vector) |->
            LET t == j - 1
                c == IF t < Len(b) THEN b[t + 1] ELSE b[Len(b)]
            IN IF c = "1" THEN set_bit(w, j - 1, io_pos, 1).self.vector[j]
               ELSE w.vector[j]]]

\* one signal's bitstring b set into the wave w: character t of b (the last
\* one when b ends early) goes to the timesteps t*ticks_per_bit + i
PlotBits(w, b, io_pos, ticks_per_bit) ==
    [w EXCEPT !.vector =
        [j \in 1..Len(w.vector) |->
            LET t == (j - 1) \div ticks_per_bit
                c == IF t < Len(b) THEN b[t + 1] ELSE b[Len(b)]
            IN IF c = "1" THEN set_bit(w, j - 1, io_pos, 1).self.vector[j]
               ELSE w.vector[j]]]

\* except KeyError: the signal's default set at every timestep
PlotDefault(w, io_pos, default) ==
    [w EXCEPT !.vector =
        [j \in 1..Len(w.vector) |-> set_bit(w, j - 1, io_pos, default).self.vector[j]]]

\* the loop "for io in IOs_to_Plot", from the k-th signal on
RECURSIVE PlotLoop(_, _, _, _, _, _, _)
PlotLoop(g, IOs_to_Plot, k, waves, bitstrings, bitstring_len, ticks_per_bit) ==
    IF k > Len(IOs_to_Plot) THEN [waves |-> waves, ret |-> None]
    ELSE
    LET io == IOs_to_Plot[k]
    IN IF io \notin DOMAIN g.IO_hardware THEN [waves |-> waves, ret |-> Raise("KeyError")]
       ELSE
       LET hw == g.IO_hardware[io]
       IN IF io \in DOMAIN bitstrings
          THEN IF bitstring_len > 0 /\ bitstrings[io] = <<>>
               THEN [waves |-> waves, ret |-> Raise("IndexError")]
               ELSE PlotLoop(g, IOs_to_Plot, k + 1,
                       [waves EXCEPT ![hw] = PlotBits(@, bitstrings[io], g.IO_pos[io],
                                                      ticks_per_bit)],
                       bitstrings, bitstring_len, ticks_per_bit)
          ELSE IF io \notin DOMAIN g.IO_default
               THEN [waves |-> waves, ret |-> Raise("KeyError")]
               ELSE PlotLoop(g, IOs_to_Plot, k + 1,
                       [waves EXCEPT ![hw] = PlotDefault(@, g.IO_pos[io], g.IO_default[io])],
                       bitstrings, bitstring_len, ticks_per_bit)

\* the loop "for glue_wave in waves.values()" with output_mode == 1
RECURSIVE WriteWaves(_, _, _, _)
WriteWaves(fsys, waves, hw_list, k) ==
    IF k > Len(hw_list) THEN [fs |-> fsys, ret |-> None]
    ELSE LET glue_wave == waves[hw_list[k]]
         IN IF glue_wave.hardware_str = None
            THEN [fs |-> fsys, ret |-> Raise("AttributeError")]
            ELSE WriteWaves(write_glue(fsys, glue_wave,
                               Replace(glue_wave.hardware_str.val, "/", "_") \o GEN_GLUE,
                               TRUE).fs,
                            waves, hw_list, k + 1)

\* ascii2Glue(ascii_file_name, ticks_per_bit, output_mode, inputs_only) with
\* the default bit_clock_freq.  hw_list is list(set(self.IO_hardware.values())),
\* whose order the interpreter chooses.  Gives what the call returns or
\* raises, the converter it leaves (IOs_to_Plot is the converter's own
\* list) and the file system it leaves.
ascii2Glue(g, fsys, ascii_file_name, ticks_per_bit, output_mode, inputs_only, hw_list) ==
    IF Len(g.IOs) = 0 THEN [ret |-> PyInt(-1), gc |-> g, fs |-> fsys]
    ELSE IF ascii_file_name \notin DOMAIN fsys
    THEN [ret |-> Raise("FileNotFoundError"), gc |-> g, fs |-> fsys]
    ELSE
    LET rd == ReadBitstrings(fsys[ascii_file_name], 1, <<>>)
        bitstrings == rd.bitstrings
    IN IF rd.ret # None THEN [ret |-> rd.ret, gc |-> g, fs |-> fsys]
       ELSE IF \E signal \in DOMAIN bitstrings : ~InSeq(signal, g.IOs)
       THEN [ret |-> PyInt(-1), gc |-> g, fs |-> fsys]
       ELSE IF DOMAIN bitstrings = {}
       THEN [ret |-> Raise("ValueError"), gc |-> g, fs |-> fsys]
       ELSE
       LET bitstring_len == MaxOf({Len(bitstrings[b]) : b \in DOMAIN bitstrings})
           vector_len == ticks_per_bit * bitstring_len
           waves0 == [hw \in Values(g.IO_hardware) |->
                         GlueWave__init__([i \in 1..vector_len |-> 0], DEFAULT_STROBE_PS,
                                          hw, <<<<GLUE_TIMESTEPS, IntToStr(vector_len)>>>>)]
       IN IF \E hw \in DOMAIN waves0 : waves0[hw].type = "raise"
          THEN [ret |-> Raise("IndexError"), gc |-> g, fs |-> fsys]
          ELSE
          LET mc == MuxCheck(g.Multiplexed_IOs, 1, DOMAIN bitstrings,
                             IF inputs_only THEN g.Input_IOs ELSE g.IOs)
              g1 == IF inputs_only THEN [g EXCEPT !.Input_IOs = mc.IOs_to_Plot]
                    ELSE [g EXCEPT !.IOs = mc.IOs_to_Plot]
          IN IF mc.err THEN [ret |-> PyInt(-1), gc |-> g1, fs |-> fsys]
             ELSE
             LET pl == PlotLoop(g1, mc.IOs_to_Plot, 1, waves0, bitstrings,
                                bitstring_len, ticks_per_bit)
             IN IF pl.ret # None THEN [ret |-> pl.ret, gc |-> g1, fs |-> fsys]
                ELSE
                LET wr == IF output_mode = 1 THEN WriteWaves(fsys, pl.waves, hw_list, 1)
                          ELSE [fs |-> fsys, ret |-> None]
                IN IF wr.ret # None THEN [ret |-> wr.ret, gc |-> g1, fs |-> wr.fs]
                   ELSE IF Len(hw_list) > 1 /\ LogCall(g1) # None
                   THEN [ret |-> LogCall(g1), gc |-> g1, fs |-> wr.fs]
                   ELSE IF hw_list = <<>>
                   THEN [ret |-> Raise("IndexError"), gc |-> g1, fs |-> wr.fs]
                   ELSE [ret |-> pl.waves[hw_list[1]], gc |-> g1, fs |-> wr.fs]

----------------------------------------------------------------------------
(* GlueConverter.get_bitstream / get_clocked_bitstream *)

\* [1 if x & (1 << self.IO_pos[name]) else 0 for x in wave.vector]
SignalBits(g, wave, name) ==
    [i \in 1..Len(wave.vector) |->
        IF BitAnd(wave.vector[i], Pow2(g.IO_pos[name])) # 0 THEN 1 ELSE 0]

\* get_bitstream(wave, data_name); the name is looked up once per element,
\* so an unknown name goes unnoticed on an empty vector
get_bitstream(g, wave, data_name) ==
    IF Len(g.IOs) = 0 THEN PyInt(-1)
    ELSE IF wave.type # "GlueWave" THEN Raise("AttributeError")
    ELSE IF wave.vector = <<>> THEN PyList(<<>>)
    ELSE IF data_name \notin DOMAIN g.IO_pos THEN Raise("KeyError")
    ELSE PyList(SignalBits(g, wave, data_name))

RECURSIVE ClockedLoopAtEdge(_, _, _, _)
ClockedLoopAtEdge(clock_sig, data_sig, i, bitstream) ==
    IF i > Len(clock_sig) THEN bitstream
    ELSE ClockedLoopAtEdge(clock_sig, data_sig, i + 1,
            IF clock_sig[i] = 1 /\ clock_sig[i - 1] = 0
            THEN Append(bitstream, data_sig[i])
            ELSE bitstream)

\* the loop "for i in range(1, len(wave.vector))"; position i here is the
\* code's timestep i - 1
RECURSIVE ClockedLoop(_, _, _, _)
ClockedLoop(clock_sig, data_sig, i, bitstream) ==
    IF i > Len(clock_sig) THEN bitstream
    ELSE ClockedLoop(clock_sig, data_sig, i + 1,
            IF clock_sig[i] = 1 /\ clock_sig[i - 1] = 0
            THEN Append(bitstream, data_sig[i - 1])
            ELSE bitstream)

\* get_clocked_bitstream(wave, clock_name, data_name)
get_clocked_bitstream(g, wave, clock_name, data_name) ==
    IF Len(g.IOs) = 0 THEN PyInt(-1)
    ELSE IF wave.type # "GlueWave" THEN Raise("AttributeError")
    ELSE IF wave.vector = <<>> THEN PyList(<<>>)
    ELSE IF clock_name \notin DOMAIN g.IO_pos \/ data_name \notin DOMAIN g.IO_pos
    THEN Raise("KeyError")
    ELSE PyList(ClockedLoop(SignalBits(g, wave, clock_name),
                            SignalBits(g, wave, data_name), 2, <<>>))

----------------------------------------------------------------------------
(* Inputs of the converter scenarios *)

IOSPEC_TXT == <<"t", "e", "s", "t", "_", "i", "o", "s", "p", "e", "c", ".", "t", "x", "t">>
TEST_ASCII == <<"t", "e", "s", "t", "_", "a", "s", "c", "i", "i", ".", "t", "x", "t">>
HW_CARIBOU_PATH == Join(HW_CARIBOU, <<"/">>)

\* the lines of IOSpec files
BEGIN == <<"B", "E", "G", "I", "N">>
HwLine(path) == HARDWARE \o <<" ">> \o path \o <<" ">> \o BEGIN \o NL
END_LINE == END \o NL
Sig(name, dir, pos) == <<name, ",", dir, ",", pos, "\n">>
SigD(name, dir, pos, def) == <<name, ",", dir, ",", pos, ",", def, "\n">>

\* the unit test's IOSpec (A -> bit 0, B -> bit 1, C -> bit 2, all inputs
\* of Caribou/apg/write), one with an output and a default of 1, one with a
\* multiplexed pin, one with two hardware groups
IOSPEC_TEST ==
    <<HwLine(HW_CARIBOU_PATH), Sig("A", "I", "0"), Sig("B", "I", "1"),
      Sig("C", "I", "2"), END_LINE>>
IOSPEC_OUT ==
    <<HwLine(HW_SE_IO), Sig("A", "I", "0"), Sig("B", "O", "1"),
      SigD("C", "I", "2", "1"), END_LINE>>
IOSPEC_MUX ==
    <<HwLine(HW_SE_IO), Sig("A", "I", "0"), Sig("B", "I", "0"),
      Sig("C", "I", "1"), END_LINE>>
IOSPEC_TWO ==
    <<HwLine(HW_SE_IO), Sig("A", "I", "0"), Sig("B", "I", "1"), END_LINE,
      HwLine(HW_CARIBOU_PATH), Sig("C", "I", "0"), END_LINE>>
IOSPEC_TWO_MUX ==
    <<HwLine(HW_SE_IO), Sig("A", "I", "0"), Sig("B", "I", "0"), END_LINE,
      HwLine(HW_CARIBOU_PATH), SigD("C", "I", "0", "1"), Sig("D", "I", "0"), END_LINE>>
ConvIOSpecs == {IOSPEC_TEST, IOSPEC_OUT, IOSPEC_MUX, IOSPEC_TWO}

\* generated IOSpec files: every sequence of at most MaxSpecLines of these
\* lines, alone and after a HARDWARE line
HwLines == {HwLine(HW_SE_IO), HwLine(HW_CARIBOU_PATH)}
GoodSignalLines ==
    {Sig("A", "I", "0"), Sig("B", "I", "0"), Sig("B", "O", "1"),
     SigD("C", "I", "0", "1"), Sig("A", "I", "1"),
     Sig("B", "I", "1"), Sig("C", "I", "2"), Sig("C", "I", "1"), Sig("C", "I", "0"),
     SigD("C", "I", "2", "1"), Sig("D", "I", "0")}
BadLines == {Sig("C", "I", "x"), <<"D", ",", "I", "\n">>}
SkippedLines == {<<"/", "/", "c", "\n">>, NL}
IOSpecLines ==
    HwLines \cup {END_LINE} \cup BadLines \cup SkippedLines
    \cup {Sig("A", "I", "0"), Sig("B", "I", "0"), Sig("B", "O", "1"),
          SigD("C", "I", "0", "1"), Sig("A", "I", "1")}
IOSpecBodies == UNION {[1..n -> IOSpecLines] : n \in 0..MaxSpecLines}
IOSpecFiles ==
    IOSpecBodies \cup {<<HwLine(HW_SE_IO)>> \o b : b \in IOSpecBodies}
    \cup ConvIOSpecs \cup {IOSPEC_TWO_MUX}

\* signal names
SigNames == {<<"A">>, <<"B">>, <<"C">>}
UNKNOWN == <<"X">>

\* waves_dict arguments
TEST_WAVES_DICT ==
    << <<<<"A">>, <<0, 1, 0, 1, 0, 1, 0, 1>>>>,
       <<<<"B">>, <<1, 1, 0, 0, 0, 0, 1, 1>>>>,
       <<<<"C">>, <<0, 0, 0, 1, 1, 1, 1, 1>>>> >>
TEST_WAVE_B_CLOCKED == <<1, 0, 0, 1>>
Seqs01 == UNION {[1..n -> {0, 1}] : n \in 0..MaxSeq}
Dicts1 == {<< <<n, q>> >> : n \in SigNames \cup {UNKNOWN}, q \in Seqs01}
Dicts2 ==
    {<< <<n[1], q1>>, <<n[2], q2>> >> :
        n \in {m \in SigNames \X SigNames : m[1] # m[2]}, q1 \in Seqs01, q2 \in Seqs01}
DictCalls ==
    ((Dicts1 \cup Dicts2 \cup {TEST_WAVES_DICT, <<>>}) \X {None} \X {0})
    \cup ((Dicts1 \cup {TEST_WAVES_DICT})
          \X {PyStr(HW_SE_IO), PyStr(HW_CARIBOU_PATH)} \X {0})
    \cup ({TEST_WAVES_DICT, << <<<<"A">>, <<>>>> >>} \X {None} \X {1, 2, 3})

\* ASCII wave files, as their entries <<name, separator, bitstring>>; the
\* file holds one line name + separator + bitstring per entry
BitStrings == UNION {[1..n -> {"0", "1"}] : n \in 0..MaxBits}
TEST_ASCII_ENTRIES ==
    << <<<<"A">>, <<":">>, <<"0", "1", "0", "1", "0", "1", "0", "1">>>>,
       <<<<"B">>, <<":">>, <<"1", "1", "0", "0", "0", "0", "1", "1">>>>,
       <<<<"C">>, <<":">>, <<"0", "0", "0", "1", "1", "1", "1", "1">>>> >>
Entries1 == {<< <<n, <<":">>, b>> >> : n \in SigNames \cup {UNKNOWN}, b \in BitStrings}
Entries2 ==
    {<< <<n[1], <<":">>, b1>>, <<n[2], <<":">>, b2>> >> :
        n \in {m \in SigNames \X SigNames : m[1] # m[2]},
        b1 \in BitStrings, b2 \in BitStrings}
AsciiEntries ==
    Entries1 \cup Entries2
    \cup {TEST_ASCII_ENTRIES, <<>>,
          << <<<<"A">>, <<" ", ":", " ">>, <<"1", "0">>>> >>,
          << <<<<"A">>, <<>>, <<"1">>>> >>}
Render(entries) ==
    [k \in 1..Len(entries) |-> entries[k][1] \o entries[k][2] \o entries[k][3] \o NL]

\* the orders in which a set can be listed
Orders(S) == {q \in [1..Cardinality(S) -> S] : \A x \in S : InSeq(x, q)}

----------------------------------------------------------------------------
(* Actions of the converter scenarios *)

\* gc = GlueConverter(iospec_file, logger); no converter is made when the
\* parse raises
NewGlueConverter(iospec_file, logger) ==
    /\ LET r == GlueConverter__init__(fs, iospec_file, logger)
       IN /\ gc' = IF r.ret.type = "raise" THEN gc ELSE r.gc
          /\ ret' = r.ret
    /\ op' = [name |-> "__init__", iospec_file |-> iospec_file,
              lines |-> IF iospec_file # None /\ iospec_file.val \in DOMAIN fs
                        THEN fs[iospec_file.val] ELSE <<>>]
    /\ UNCHANGED <<wave1, wave2, fs, nedits>>

\* gc.parse_iospec_file(iospec_file)
ParseIOSpecFile(iospec_file) ==
    /\ LET r == parse_iospec_file(gc, fs, iospec_file)
       IN /\ gc' = r.gc
          /\ ret' = r.ret
    /\ op' = [name |-> "parse_iospec_file", iospec_file |-> iospec_file,
              lines |-> IF iospec_file.val \in DOMAIN fs
                        THEN fs[iospec_file.val] ELSE <<>>,
              before |-> gc]
    /\ UNCHANGED <<wave1, wave2, fs, nedits>>

\* wave1 = gc.dict2Glue(waves_dict, hardware_str, output_mode)
Dict2Glue(waves_dict, hardware_str, output_mode) ==
    /\ LET r == dict2Glue(gc, fs, waves_dict, hardware_str, output_mode)
       IN /\ wave1' = IF r.ret.type = "raise" THEN wave1 ELSE r.ret
          /\ ret' = r.ret
          /\ fs' = r.fs
    /\ op' = [name |-> "dict2Glue", waves_dict |-> waves_dict,
              hardware_str |-> hardware_str, output_mode |-> output_mode]
    /\ UNCHANGED <<gc, wave2, nedits>>

\* the import call that made wave1
ImportOp ==
    IF op.name \in {"dict2Glue", "ascii2Glue"} THEN op
    ELSE IF op.name \in {"get_bitstream", "get_clocked_bitstream"} THEN op.src
    ELSE None

\* gc.get_bitstream(wave1, data_name)
\* a get_bitstream that takes the elements out of the wave as it reads them
GetBitstream_Draining(data_name) ==
    /\ ret' = get_bitstream(gc, wave1, data_name)
    /\ op' = [name |-> "get_bitstream", data_name |-> data_name, wave |-> wave1,
              src |-> ImportOp]
    /\ wave1' = IF wave1.type = "GlueWave" THEN [wave1 EXCEPT !.vector = <<>>] ELSE wave1
    /\ UNCHANGED <<gc, wave2, fs, nedits>>

GetBitstream(data_name) ==
    /\ ret' = get_bitstream(gc, wave1, data_name)
    /\ op' = [name |-> "get_bitstream", data_name |-> data_name, wave |-> wave1,
              src |-> ImportOp]
    /\ UNCHANGED <<gc, wave1, wave2, fs, nedits>>

\* gc.get_clocked_bitstream(wave1, clock_name, data_name)
GetClockedBitstream(clock_name, data_name) ==
    /\ ret' = get_clocked_bitstream(gc, wave1, clock_name, data_name)
    /\ op' = [name |-> "get_clocked_bitstream", clock_name |-> clock_name,
              data_name |-> data_name, wave |-> wave1, src |-> ImportOp]
    /\ UNCHANGED <<gc, wave1, wave2, fs, nedits>>

\* The environment supplies an ASCII wave file
PutAscii(name, entries) ==
    /\ fs' = WriteFile(fs, name, Render(entries))
    /\ op' = [name |-> "put_ascii", file |-> name, entries |-> entries]
    /\ ret' = None
    /\ UNCHANGED <<gc, wave1, wave2, nedits>>

\* wave1 = gc.ascii2Glue(ascii_file_name, ticks_per_bit, output_mode, inputs_only)
Ascii2Glue(ascii_file_name, ticks_per_bit, output_mode, inputs_only, hw_list) ==
    /\ LET r == ascii2Glue(gc, fs, ascii_file_name, ticks_per_bit, output_mode,
                           inputs_only, hw_list)
       IN /\ wave1' = IF r.ret.type = "raise" THEN wave1 ELSE r.ret
          /\ ret' = r.ret
          /\ gc' = r.gc
          /\ fs' = r.fs
    /\ op' = [name |-> "ascii2Glue", file |-> ascii_file_name,
              ticks_per_bit |-> ticks_per_bit, output_mode |-> output_mode,
              inputs_only |-> inputs_only, before |-> gc,
              entries |-> IF op.name \in {"put_ascii", "ascii2Glue"}
                          THEN op.entries ELSE <<>>]
    /\ UNCHANGED <<wave2, nedits>>

----------------------------------------------------------------------------
(* Specifications of the converter scenarios *)

\* IOSpec files are written and loaded
NextParse ==
    \/ /\ IOSPEC_TXT \notin DOMAIN fs
       /\ \E l \in IOSpecFiles : PutFile(IOSPEC_TXT, l)
    \/ \E f \in {None, PyStr(IOSPEC_TXT)}, lg \in {Logger, None} : NewGlueConverter(f, lg)
    \/ ParseIOSpecFile(PyStr(IOSPEC_TXT))

SpecParse == InitCodec /\ [][NextParse]_vars

\* a converter built on one of the IOSpec files, or on none
ConvInits ==
    (ConvIOSpecs \X {PyStr(IOSPEC_TXT)} \X {Logger})
    \cup ({IOSPEC_TEST} \X {PyStr(IOSPEC_TXT)} \X {None})
    \cup ({IOSPEC_TEST} \X {None} \X {Logger, None})
InitConv ==
    /\ \E c \in ConvInits :
          /\ fs = WriteFile(NoFiles, IOSPEC_TXT, c[1])
          /\ gc = GlueConverter__init__(fs, c[2], c[3]).gc
    /\ wave1 = None
    /\ wave2 = None
    /\ op = [name |-> "GlueConverter"]
    /\ ret = None
    /\ nedits = 0

\* vectors of two-bit elements, for waves the client builds itself
ClockVectors == UNION {[1..n -> 0..3] : n \in 0..MaxLen}
Queries == {"get_bitstream", "get_clocked_bitstream"}

\* one wave is made, by dict2Glue or by the client, and then queried; a
\* query changes nothing a later query reads, so one is taken at a time
NextConv ==
    \/ /\ op.name = "GlueConverter"
       /\ \E c \in DictCalls : Dict2Glue(c[1], c[2], c[3])
    \/ /\ op.name = "GlueConverter"
       /\ \E v \in ClockVectors : NewGlueWave(v, DEFAULT_STROBE_PS, PyStr(HW_SE_IO), <<>>)
    \/ /\ op.name \notin Queries
       /\ \E n \in SigNames \cup {UNKNOWN} : GetBitstream(n)
    \/ /\ op.name \notin Queries
       /\ \E c \in SigNames \cup {UNKNOWN}, d \in SigNames : GetClockedBitstream(c, d)

SpecConv == InitConv /\ [][NextConv]_vars

\* one ASCII wave file is written and imported
NextAscii ==
    \/ /\ TEST_ASCII \notin DOMAIN fs
       /\ \E e \in AsciiEntries : PutAscii(TEST_ASCII, e)
    \/ /\ wave1 = None
       /\ \E t \in {1, 2}, m \in {0, 1}, io \in BOOLEAN,
             hw_list \in Orders(IF Len(gc.IOs) = 0 THEN {} ELSE Values(gc.IO_hardware)) :
             Ascii2Glue(TEST_ASCII, t, m, io, hw_list)

SpecAscii == InitConv /\ [][NextAscii]_vars

----------------------------------------------------------------------------
(* Claims about dict2Glue and the bitstream queries, checked under SpecConv *)

KeysOf(waves_dict) == {waves_dict[k][1] : k \in 1..Len(waves_dict)}
SeqOf(waves_dict, s) == waves_dict[CHOOSE k \in 1..Len(waves_dict) : waves_dict[k][1] = s][2]

\* o is a dict2Glue call on the loaded IOSpec with 0/1 sequences for
\* signals of one hardware group
OneGroupCall(o) ==
    /\ o.name = "dict2Glue"
    /\ gc.loaded_iospec_file
    /\ o.waves_dict # <<>>
    /\ \A k \in 1..Len(o.waves_dict) :
          /\ InSeq(o.waves_dict[k][1], gc.IOs)
          /\ \A i \in 1..Len(o.waves_dict[k][2]) : o.waves_dict[k][2][i] \in {0, 1}
          /\ gc.IO_hardware[o.waves_dict[k][1]] = gc.IO_hardware[o.waves_dict[1][1]]
    /\ o.hardware_str \in {None, gc.IO_hardware[o.waves_dict[1][1]]}

\* every sequence has a last value and no two signals share a bit position
NonEmptyDistinctBits(o) ==
    /\ \A k \in 1..Len(o.waves_dict) : o.waves_dict[k][2] # <<>>
    /\ \A k, l \in 1..Len(o.waves_dict) :
          k # l => gc.IO_pos[o.waves_dict[k][1]] # gc.IO_pos[o.waves_dict[l][1]]

SameLength(waves_dict) ==
    \A k, l \in 1..Len(waves_dict) : Len(waves_dict[k][2]) = Len(waves_dict[l][2])

\* w is a wave as long as the longest sequence, bit IO_pos[s] of vector[i]
\* being s's value at i, or its last value past its end
Packs(o, w) ==
    /\ w.type = "GlueWave"
    /\ w.len = MaxOf({Len(o.waves_dict[k][2]) : k \in 1..Len(o.waves_dict)})
    /\ Len(w.vector) = w.len
    /\ \A k \in 1..Len(o.waves_dict), i \in 1..w.len :
          LET sig == o.waves_dict[k][2]
          IN Bit(w.vector[i], gc.IO_pos[o.waves_dict[k][1]])
             = IF i <= Len(sig) THEN sig[i] ELSE sig[Len(sig)]

\* a get_bitstream call on the wave of the dict2Glue call op.src, for one of
\* its signals
BitstreamOfImport ==
    /\ op.name = "get_bitstream"
    /\ op.src # None
    /\ op.src.name = "dict2Glue"
    /\ op.wave.type = "GlueWave"
    /\ op.data_name \in KeysOf(op.src.waves_dict)

\* C7 as stated: dict2Glue, given 0/1 sequences for signals of one hardware
\* group, returns a wave of the longest sequence's length in which bit
\* IO_pos[s] of vector[i] is s's value at i (its last value past its end),
\* and get_bitstream gives back each sequence when all have one length.
C7_AnySequences ==
    /\ (op.name = "dict2Glue" /\ OneGroupCall(op)) => Packs(op, ret)
    /\ (BitstreamOfImport /\ OneGroupCall(op.src) /\ SameLength(op.src.waves_dict))
       => ret = PyList(SeqOf(op.src.waves_dict, op.data_name))

\* C7: dict2Glue, given non-empty 0/1 sequences for signals of one hardware
\* group that have pairwise distinct bit positions, returns a wave of the
\* longest sequence's length in which bit IO_pos[s] of vector[i] is s's
\* value at i (its last value past its end); get_bitstream on that wave
\* gives back each supplied sequence when all have the same length.
C7_Packing ==
    /\ (op.name = "dict2Glue" /\ OneGroupCall(op) /\ NonEmptyDistinctBits(op))
       => Packs(op, ret)
    /\ (/\ BitstreamOfImport
        /\ OneGroupCall(op.src)
        /\ NonEmptyDistinctBits(op.src)
        /\ SameLength(op.src.waves_dict))
       => ret = PyList(SeqOf(op.src.waves_dict, op.data_name))

\* C7 witness: the unit test's dict packed into the unit test's vector
C7_Witness ==
    /\ op.name = "dict2Glue"
    /\ op.waves_dict = TEST_WAVES_DICT
    /\ OneGroupCall(op) /\ NonEmptyDistinctBits(op)
    /\ ret.type = "GlueWave"
    /\ ret.vector = TEST_WAVES_VECTOR

\* a get_clocked_bitstream call on a wave, for two signals of the IOSpec
ClockedCall ==
    /\ op.name = "get_clocked_bitstream"
    /\ op.wave.type = "GlueWave"
    /\ Len(gc.IOs) > 0
    /\ op.clock_name \in DOMAIN gc.IO_pos
    /\ op.data_name \in DOMAIN gc.IO_pos

\* the value of a signal at timestep t (from 0)
SignalAt(wave, name, t) == Bit(wave.vector[t + 1], gc.IO_pos[name])

\* the timesteps at which the clock rises
RisingEdges(wave, clock_name) ==
    {t \in 1..(Len(wave.vector) - 1) :
        SignalAt(wave, clock_name, t - 1) = 0 /\ SignalAt(wave, clock_name, t) = 1}

\* C8: get_clocked_bitstream(wave, clock, data) returns one entry per
\* timestep i in 1..len-1 at which the clock bit is 0 at i-1 and 1 at i, in
\* increasing order of i, the entry being the data bit at timestep i-1.
C8_ClockedBitstream ==
    ClockedCall
    => LET E == RisingEdges(op.wave, op.clock_name)
       IN /\ ret.type = "list"
          /\ Len(ret.val) = Cardinality(E)
          /\ \A k \in 1..Len(ret.val) :
                LET t == CHOOSE t \in E : Cardinality({u \in E : u < t}) = k - 1
                IN ret.val[k] = SignalAt(op.wave, op.data_name, t - 1)

\* C8 witness: the unit test's B clocked by A
C8_Witness ==
    /\ ClockedCall
    /\ op.wave.vector = TEST_WAVES_VECTOR
    /\ op.clock_name = <<"A">> /\ op.data_name = <<"B">>
    /\ ret = PyList(TEST_WAVE_B_CLOCKED)

----------------------------------------------------------------------------
(* Claim about ascii2Glue, checked under SpecAscii *)

\* a bitstring as the 0/1 sequence that repeats each character
Expand(b, ticks_per_bit) ==
    [j \in 1..(Len(b) * ticks_per_bit) |->
        IF b[((j - 1) \div ticks_per_bit) + 1] = "1" THEN 1 ELSE 0]
DictOf(entries, ticks_per_bit) ==
    [k \in 1..Len(entries) |-> <<entries[k][1], Expand(entries[k][3], ticks_per_bit)>>]

\* a file of name:bitstring lines, the names distinct
NameBitstringLines(entries) ==
    /\ entries # <<>>
    /\ \A k \in 1..Len(entries) : InSeq(":", entries[k][2])
    /\ \A k, l \in 1..Len(entries) : k # l => entries[k][1] # entries[l][1]

\* the wave dict2Glue returns for the same signals
SameByDict == dict2Glue(op.before, fs, DictOf(op.entries, op.ticks_per_bit), None, 0).ret

\* the signals ascii2Glue considers
Scope(o) == IF o.inputs_only THEN o.before.Input_IOs ELSE o.before.IOs

\* the IOSpec has one hardware group and no multiplexed pin, the file names
\* signals in scope with non-empty bitstrings, and every signal in scope
\* that the file leaves out has a default other than 1
PlainImport(o) ==
    /\ o.before.loaded_iospec_file
    /\ Cardinality(Values(o.before.IO_hardware)) = 1
    /\ o.before.Multiplexed_IOs = <<>>
    /\ \A k \in 1..Len(o.entries) :
          InSeq(o.entries[k][1], Scope(o)) /\ o.entries[k][3] # <<>>
    /\ \A i \in 1..Len(Scope(o)) :
          (\A k \in 1..Len(o.entries) : o.entries[k][1] # Scope(o)[i])
          => o.before.IO_default[Scope(o)[i]] # 1

\* C9 as stated: ascii2Glue applied to a file of name:bitstring lines
\* returns a wave equal to the one dict2Glue returns for the same signals
\* with every character repeated ticks_per_bit times.
C9_AsciiEqualsDict ==
    (/\ op.name = "ascii2Glue"
     /\ NameBitstringLines(op.entries)
     /\ SameByDict.type = "GlueWave")
    => /\ ret.type = "GlueWave"
       /\ GlueWave__eq__(ret, SameByDict)

\* C9: on an IOSpec with one hardware group and no multiplexed pin,
\* ascii2Glue applied to a file of name:bitstring lines that names only
\* signals in scope (the inputs, or every signal when inputs_only is off)
\* with non-empty bitstrings, every signal in scope left out of the file
\* having a default other than 1, returns a wave equal to the one dict2Glue
\* returns for the same signals with every character repeated ticks_per_bit
\* times, a shorter bitstring having its final character held.
C9_AsciiEqualsDictInScope ==
    (/\ op.name = "ascii2Glue"
     /\ NameBitstringLines(op.entries)
     /\ PlainImport(op))
    => /\ ret.type = "GlueWave"
       /\ SameByDict.type = "GlueWave"
       /\ GlueWave__eq__(ret, SameByDict)

\* C9 witness: a two-tick import of bitstrings of different lengths
C9_Witness ==
    /\ op.name = "ascii2Glue"
    /\ NameBitstringLines(op.entries)
    /\ PlainImport(op)
    /\ op.ticks_per_bit = 2
    /\ op.entries = << <<<<"A">>, <<":">>, <<"0", "1">>>>, <<<<"B">>, <<":">>, <<"1">>>> >>
    /\ ret.type = "GlueWave"
    /\ ret.vector = <<2, 2, 3, 3>>

----------------------------------------------------------------------------
(* Claim about the multiplexed-pin groups, checked under SpecParse *)

\* a load of an existing file has just been attempted
Loaded ==
    /\ op.name \in {"__init__", "parse_iospec_file"}
    /\ op.iospec_file # None
    /\ op.iospec_file.val \in DOMAIN fs

Pin(s) == <<gc.IO_hardware[s], gc.IO_pos[s]>>
SignalsAt(pin) == {s \in DOMAIN gc.IO_pos : Pin(s) = pin}
SharedPins == {pin \in {Pin(s) : s \in DOMAIN gc.IO_pos} : Cardinality(SignalsAt(pin)) >= 2}
Members(group) == {group[i] : i \in 1..Len(group)}

\* every line is a HARDWARE line, an END line, a comment, a blank line or a
\* signal line with integer fields, and every signal line is inside a
\* HARDWARE ... END block
WellFormedIOSpec(lines) ==
    \A k \in 1..Len(lines) :
        \/ lines[k] \in HwLines \cup {END_LINE} \cup SkippedLines
        \/ /\ lines[k] \in GoodSignalLines
           /\ \E j \in 1..(k - 1) :
                 /\ lines[j] \in HwLines
                 /\ \A m \in (j + 1)..(k - 1) : lines[m] # END_LINE

\* C10: after parse_iospec_file the list of multiplexed-pin groups holds
\* exactly one group for each (hardware group, bit position) pair shared by
\* two or more signals, the group holding all and only the signals at that
\* pair; no signal is in two groups; and a file whose lines are all well
\* formed loads without failure whatever pins its signals share.
C10_MultiplexedGroups ==
    /\ (Loaded /\ ret = None)
       => /\ Len(gc.Multiplexed_IOs) = Cardinality(SharedPins)
          /\ {Members(gc.Multiplexed_IOs[i]) : i \in 1..Len(gc.Multiplexed_IOs)}
             = {SignalsAt(pin) : pin \in SharedPins}
          /\ \A i, j \in 1..Len(gc.Multiplexed_IOs) :
                i # j => Members(gc.Multiplexed_IOs[i]) \cap Members(gc.Multiplexed_IOs[j]) = {}
    /\ (Loaded /\ WellFormedIOSpec(op.lines)) => ret = None

\* C10 witness: a file with two shared pins loaded into two groups
C10_Witness ==
    /\ Loaded /\ ret = None
    /\ op.name = "parse_iospec_file"
    /\ op.lines = IOSPEC_TWO_MUX
    /\ Cardinality(SharedPins) = 2
    /\ Len(gc.Multiplexed_IOs) = 2

----------------------------------------------------------------------------
(* GlueConverter.VCD2Glue.  The parsed VCD file is the object the vcdvcd    *)
(* reader returns: vcd.hierarchy is the first scope, vcd.data maps a scoped *)
(* signal name to its values at the ticks starttime..endtime (all signals   *)
(* share starttime and endtime, as the code assumes), vcd.timescale_ps is   *)
(* 1e12 * float(vcd.get_timescale()["timescale"]).  Looking up a name that  *)
(* is not in the trace raises KeyError.                                     *)

MaxTicks == 2      \* longest trace, in ticks of the VCD timebase

DOT_GLUE == <<".", "g", "l", "u", "e">>
VCD_TIMEBASE_PICOSECONDS ==
    <<"V", "C", "D", "_", "T", "I", "M", "E", "B", "A", "S", "E", "_",
      "P", "I", "C", "O", "S", "E", "C", "O", "N", "D", "S">>

Scoped(tb_name, io) == tb_name \o <<".">> \o io

\* vcd[name][vcd_tick]: the value at or before the tick
VcdValue(vcd, name, vcd_tick) ==
    LET k == vcd_tick - vcd.starttime
        n == Len(vcd.data[name])
    IN vcd.data[name][IF k + 1 > n THEN n ELSE k + 1]

\* int(t*strobe_to_vcd_timebase_ratio + starttime), the ratio being
\* strobe_ps / vcd_timebase_ps
\* the tick round(t * ratio) + starttime instead, halves to the even tick
VcdTick_Round(t, strobe_ps, vcd_timebase_ps, starttime) ==
    LET q == (t * NumM(strobe_ps)) \div NumM(vcd_timebase_ps)
        r == (t * NumM(strobe_ps)) % NumM(vcd_timebase_ps)
    IN starttime + (IF 2 * r < NumM(vcd_timebase_ps) THEN q
                    ELSE IF 2 * r > NumM(vcd_timebase_ps) THEN q + 1
                    ELSE IF q % 2 = 0 THEN q ELSE q + 1)

VcdTick(t, strobe_ps, vcd_timebase_ps, starttime) ==
    (t * NumM(strobe_ps) + starttime * NumM(vcd_timebase_ps)) \div NumM(vcd_timebase_ps)

\* the loop "for t in range(len(waves[hw].vector))" of a signal of the trace
SampleBits(w, vcd, name, io_pos, strobe_ps, vcd_timebase_ps) ==
    [w EXCEPT !.vector =
        [j \in 1..Len(w.vector) |->
            IF VcdValue(vcd, name, VcdTick(j - 1, strobe_ps, vcd_timebase_ps,
                                           vcd.starttime)) = "1"
            THEN set_bit(w, j - 1, io_pos, 1).self.vector[j]
            ELSE w.vector[j]]]

\* the loop "for io in IOs_to_Plot", from the k-th signal on
RECURSIVE SampleLoop(_, _, _, _, _, _, _, _)
SampleLoop(g, IOs_to_Plot, k, waves, vcd, tb_name, strobe_ps, vcd_timebase_ps) ==
    IF k > Len(IOs_to_Plot) THEN [waves |-> waves, ret |-> None]
    ELSE
    LET io == IOs_to_Plot[k]
    IN IF io \notin DOMAIN g.IO_hardware THEN [waves |-> waves, ret |-> Raise("KeyError")]
       ELSE
       LET hw == g.IO_hardware[io]
           name == Scoped(tb_name, io)
       IN IF Len(waves[hw].vector) = 0
          THEN SampleLoop(g, IOs_to_Plot, k + 1, waves, vcd, tb_name, strobe_ps,
                          vcd_timebase_ps)
          ELSE IF name \in DOMAIN vcd.data
          THEN SampleLoop(g, IOs_to_Plot, k + 1,
                  [waves EXCEPT ![hw] = SampleBits(@, vcd, name, g.IO_pos[io], strobe_ps,
                                                   vcd_timebase_ps)],
                  vcd, tb_name, strobe_ps, vcd_timebase_ps)
          ELSE IF io \notin DOMAIN g.IO_default
          THEN [waves |-> waves, ret |-> Raise("KeyError")]
          ELSE SampleLoop(g, IOs_to_Plot, k + 1,
                  [waves EXCEPT ![hw] = set_mask_bit(@, g.IO_pos[io], g.IO_default[io])],
                  vcd, tb_name, strobe_ps, vcd_timebase_ps)

\* the loop "for glue_wave in waves.values()", from the k-th wave on
RECURSIVE WriteVcdWaves(_, _, _, _, _, _)
WriteVcdWaves(fsys, waves, hw_list, k, output_file_tag, glue_files_written) ==
    IF k > Len(hw_list) THEN [fs |-> fsys, ret |-> PyList(glue_files_written)]
    ELSE LET glue_wave == waves[hw_list[k]]
         IN IF glue_wave.hardware = None
            THEN [fs |-> fsys, ret |-> Raise("TypeError")]
            ELSE
            LET name == output_file_tag \o <<"_">> \o glue_wave.hardware.val[3] \o DOT_GLUE
                wr == write_glue(fsys, glue_wave, name, TRUE)
            IN IF wr.ret.type = "raise" THEN wr
               ELSE WriteVcdWaves(wr.fs, waves, hw_list, k + 1, output_file_tag,
                                  Append(glue_files_written, wr.ret))

\* VCD2Glue(vcd_file_name, strobe_ps, output_file_tag, inputs_only, tb_name,
\* vcd_timebase_ps), vcd being the parsed file and hw_list being
\* list(set(self.IO_hardware.values())), whose order the interpreter
\* chooses.  Gives what the call returns or raises, the converter and the
\* file system it leaves, and the waves it wrote.
VCD2Glue(g, fsys, vcd, strobe_ps, output_file_tag, inputs_only, tb_name, vcd_timebase_ps, hw_list) ==
    LET fail(r) == [ret |-> r, gc |-> g, fs |-> fsys, waves |-> <<>>]
    IN
    IF Len(g.IOs) = 0 THEN fail(PyInt(-1))
    ELSE IF g.Multiplexed_IOs # <<>> THEN fail(Raise("AssertionError"))
    ELSE IF DOMAIN vcd.data = {} THEN fail(Raise("IndexError"))      \* vcd.signals[0]
    ELSE
    LET timebase == IF vcd_timebase_ps = None THEN PyFloat(vcd.timescale_ps, 0)
                    ELSE vcd_timebase_ps
        tb == IF tb_name = None THEN vcd.hierarchy ELSE tb_name
        vcd_length_in_time_units == vcd.endtime - vcd.starttime
        vector_length_in_ticks ==
            (vcd_length_in_time_units * NumM(timebase)) \div NumM(strobe_ps)
        waves0 == [hw \in Values(g.IO_hardware) |->
                     GlueWave__init__([i \in 1..vector_length_in_ticks |-> 0], strobe_ps, hw,
                        << <<VCD_TIMEBASE_PICOSECONDS, Str(timebase)>>,
                           <<GLUE_TIMESTEPS, IntToStr(vector_length_in_ticks)>> >>)]
    IN IF \E hw \in DOMAIN waves0 : waves0[hw].type = "raise"
       THEN fail(Raise("IndexError"))
       ELSE
       LET sl == SampleLoop(g, IF inputs_only THEN g.Input_IOs ELSE g.IOs, 1, waves0, vcd,
                            tb, strobe_ps, timebase)
       IN IF sl.ret # None THEN fail(sl.ret)
          ELSE
          LET waves == [hw \in DOMAIN sl.waves |-> apply_mask(sl.waves[hw])]
              wr == WriteVcdWaves(fsys, waves, hw_list, 1, output_file_tag, <<>>)
          IN [ret |-> wr.ret, gc |-> g, fs |-> wr.fs, waves |-> waves]

----------------------------------------------------------------------------
(* The VCD import scenario: a converter is built on an IOSpec file and one  *)
(* trace is imported.                                                       *)

\* an IOSpec whose signals A (input) and B (output) default to 1
IOSPEC_DEF ==
    <<HwLine(HW_SE_IO), SigD("A", "I", "0", "1"), SigD("B", "O", "1", "1"),
      Sig("C", "I", "2"), END_LINE>>

TB == <<"t", "b">>
VCD_TAG == <<"o", "u", "t">>

\* traces of 0..MaxTicks ticks of 10 ns ("$timescale 10ns") that start at
\* tick 0 or 1 and hold, in the scope tb, at most two of the signals A, B, C
\* with any values, or all three with the same values
TraceValues(L) == [1..(L + 1) -> {"0", "1"}]
VcdData(L) ==
    UNION {[{Scoped(TB, n) : n \in S} -> TraceValues(L)] :
              S \in {T \in SUBSET SigNames : Cardinality(T) <= 2}}
    \cup {[n \in {Scoped(TB, m) : m \in SigNames} |-> v] : v \in TraceValues(L)}
VCDs ==
    UNION {{[hierarchy |-> TB, starttime |-> s, endtime |-> s + L,
             timescale_ps |-> 10000, data |-> d] : s \in {0, 1}, d \in VcdData(L)}
           : L \in 0..MaxTicks}

\* strobes of half, one and two ticks of the trace
VcdStrobes == {PyInt(5000), PyInt(10000), PyInt(20000)}

\* two cards of one kind: the groups differ in the slot only
HW_SE_IO_SLOT6 == [HW_SE_IO EXCEPT ![9] = "6"]
IOSPEC_TWO_CARDS ==
    <<HwLine(HW_SE_IO), Sig("A", "I", "0"), END_LINE,
      HwLine(HW_SE_IO_SLOT6), Sig("B", "I", "0"), END_LINE>>

VcdInits ==
    ({IOSPEC_TEST, IOSPEC_OUT, IOSPEC_DEF, IOSPEC_MUX, IOSPEC_TWO, IOSPEC_TWO_CARDS}
        \X {PyStr(IOSPEC_TXT)} \X {Logger})
    \cup ({IOSPEC_TEST} \X {None} \X {Logger})
InitVcd ==
    /\ \E c \in VcdInits :
          /\ fs = WriteFile(NoFiles, IOSPEC_TXT, c[1])
          /\ gc = GlueConverter__init__(fs, c[2], c[3]).gc
    /\ wave1 = None
    /\ wave2 = None
    /\ op = [name |-> "GlueConverter"]
    /\ ret = None
    /\ nedits = 0

Vcd2Glue(vcd, strobe_ps, output_file_tag, inputs_only, hw_list) ==
    /\ LET r == VCD2Glue(gc, fs, vcd, strobe_ps, output_file_tag, inputs_only, None, None,
                         hw_list)
       IN /\ ret' = r.ret
          /\ gc' = r.gc
          /\ fs' = r.fs
          /\ op' = [name |-> "VCD2Glue", vcd |-> vcd, strobe_ps |-> strobe_ps,
                    output_file_tag |-> output_file_tag, inputs_only |-> inputs_only,
                    hw_list |-> hw_list, before |-> gc, waves |-> r.waves]
    /\ UNCHANGED <<wave1, wave2, nedits>>

NextVcd ==
    /\ op.name = "GlueConverter"
    /\ \E vcd \in VCDs, strobe_ps \in VcdStrobes, inputs_only \in BOOLEAN,
          hw_list \in Orders(IF Len(gc.IOs) = 0 THEN {} ELSE Values(gc.IO_hardware)) :
          Vcd2Glue(vcd, strobe_ps, VCD_TAG, inputs_only, hw_list)

SpecVcd == InitVcd /\ [][NextVcd]_vars

----------------------------------------------------------------------------
(* Claims about VCD2Glue, checked under SpecVcd *)

VcdScope(o) == IF o.inputs_only THEN o.before.Input_IOs ELSE o.before.IOs
AbsentFromTrace(o, s) == Scoped(o.vcd.hierarchy, s) \notin DOMAIN o.vcd.data

\* the signals of the IOSpec with default value 1 that the trace lacks
MissingDefault1(o) ==
    {s \in DOMAIN o.before.IO_default :
        o.before.IO_default[s] = 1 /\ AbsentFromTrace(o, s)}

\* an import the importer supports: an IOSpec is loaded, it has no
\* multiplexed pin, and the trace holds a signal
SupportedImport(o) ==
    /\ o.name = "VCD2Glue"
    /\ Len(o.before.IOs) > 0
    /\ o.before.Multiplexed_IOs = <<>>
    /\ DOMAIN o.vcd.data # {}

\* the waves of the same import by a converter that does not look s up
WavesWithout(o, s) ==
    LET keep(l) == SelectSeq(l, LAMBDA x : x # s)
        g == IF o.inputs_only THEN [o.before EXCEPT !.Input_IOs = keep(@)]
             ELSE [o.before EXCEPT !.IOs = keep(@)]
    IN VCD2Glue(g, NoFiles, o.vcd, o.strobe_ps, o.output_file_tag, o.inputs_only,
                None, None, o.hw_list).waves

\* the bit of signal x at timestep t that the trace and the IOSpec give:
\* the sampled value of a signal in scope, its default when the trace lacks
\* it, 0 for a signal out of scope
ExpectedVcdBit(o, x, t) ==
    IF ~InSeq(x, VcdScope(o)) THEN 0
    ELSE IF AbsentFromTrace(o, x)
    THEN IF o.before.IO_default[x] = 1 THEN 1 ELSE 0
    ELSE IF VcdValue(o.vcd, Scoped(o.vcd.hierarchy, x),
                     VcdTick(t - 1, o.strobe_ps, PyFloat(o.vcd.timescale_ps, 0),
                             o.vcd.starttime)) = "1"
    THEN 1 ELSE 0

\* s's bit is 1 at every timestep of its group's wave, and the bits of
\* the group's other signals are those of the import without s, which are
\* the ones the trace and the IOSpec give
DefaultedTo1(o, s) ==
    LET hw == o.before.IO_hardware[s]
        w == o.waves[hw]
        others == {x \in DOMAIN o.before.IO_pos :
                      x # s /\ o.before.IO_hardware[x] = hw}
    IN /\ \A t \in 1..Len(w.vector) : Bit(w.vector[t], o.before.IO_pos[s]) = 1
       /\ \A x \in others :
             LET v == WavesWithout(o, s)[hw].vector
             IN /\ Len(v) = Len(w.vector)
                /\ \A t \in 1..Len(v) :
                      /\ Bit(w.vector[t], o.before.IO_pos[x]) = Bit(v[t], o.before.IO_pos[x])
                      /\ Bit(w.vector[t], o.before.IO_pos[x]) = ExpectedVcdBit(o, x, t)

\* C11 as stated: in VCD2Glue, every signal of the IOSpec with default
\* value 1 that is absent from the trace leaves the import successful, has
\* its bit equal to 1 at every timestep of its hardware group's wave, and
\* leaves every other signal's bit as it would be without it
C11_MaskDefault ==
    SupportedImport(op) =>
        \A s \in MissingDefault1(op) : ret.type # "raise" /\ DefaultedTo1(op, s)

\* C11, for the signals the import covers: every signal in the import's
\* scope (the inputs, or all signals when inputs_only is false) with default
\* value 1 that is absent from the trace leaves the import successful, has
\* its bit equal to 1 at every timestep of its hardware group's wave, and
\* leaves every other signal's bit as it would be without it
C11_MaskDefaultInScope ==
    SupportedImport(op) =>
        \A s \in MissingDefault1(op) :
            InSeq(s, VcdScope(op)) => ret.type # "raise" /\ DefaultedTo1(op, s)

\* an input with default 1 is missing from a trace of two timesteps or more
\* in which another signal of its group is sampled both as 1 and as 0
C11_Witness ==
    /\ SupportedImport(op)
    /\ ret.type = "list"
    /\ \E s \in MissingDefault1(op) :
          /\ InSeq(s, VcdScope(op))
          /\ LET hw == op.before.IO_hardware[s]
                 w == op.waves[hw]
             IN /\ Len(w.vector) >= 2
                /\ \E x \in DOMAIN op.before.IO_pos :
                      /\ x # s
                      /\ op.before.IO_hardware[x] = hw
                      /\ ~AbsentFromTrace(op, x)
                      /\ \E t1, t2 \in 1..Len(w.vector) :
                            /\ Bit(w.vector[t1], op.before.IO_pos[x]) = 1
                            /\ Bit(w.vector[t2], op.before.IO_pos[x]) = 0

----------------------------------------------------------------------------
(* GlueConverter.compare / diff.  compare prints one row per signal of     *)
(* wave1's hardware; diff hands its traces to plot_waves.  What is printed  *)
(* and what is plotted are kept as the calls' results.                      *)

MaxCmpLen == 2     \* longest vector of a compared wave

RECURSIVE SumSeq(_)
SumSeq(s) == IF s = <<>> THEN 0 ELSE Head(s) + SumSeq(Tail(s))

Min(a, b) == IF a < b THEN a ELSE b

\* [1 if x & (1 << position) else 0 for x in vector]
Pattern(vector, position) ==
    [i \in 1..Len(vector) |-> IF BitAnd(vector[i], Pow2(position)) # 0 THEN 1 ELSE 0]

\* all([pattern1_this_io[i] == pattern2_this_io[i] for i in range(n)])
Passthrough(pattern1_this_io, pattern2_this_io, n) ==
    \A i \in 1..n : pattern1_this_io[i] = pattern2_this_io[i]

\* the loop "for io in self.IOs", from the k-th signal on; a duty cycle
\* round(sum/len, 5) is kept as the pair <<sum, len>>
RECURSIVE CompareLoop(_, _, _, _, _)
CompareLoop(g, w1, w2, k, printed) ==
    IF k > Len(g.IOs) THEN [ret |-> None, printed |-> printed]
    ELSE
    LET io == g.IOs[k]
    IN IF io \notin DOMAIN g.IO_hardware THEN [ret |-> Raise("KeyError"), printed |-> printed]
       ELSE IF g.IO_hardware[io] # w1.hardware_str
       THEN CompareLoop(g, w1, w2, k + 1, printed)
       ELSE
       LET pattern1_this_io == Pattern(w1.vector, g.IO_pos[io])
           pattern2_this_io == Pattern(w2.vector, g.IO_pos[io])
       IN IF pattern1_this_io = <<>> \/ pattern2_this_io = <<>>
          THEN [ret |-> Raise("ZeroDivisionError"), printed |-> printed]
          ELSE CompareLoop(g, w1, w2, k + 1,
                  Append(printed,
                         [io |-> io, direction |-> g.IO_dir[io],
                          DC1 |-> <<SumSeq(pattern1_this_io), Len(pattern1_this_io)>>,
                          DC2 |-> <<SumSeq(pattern2_this_io), Len(pattern2_this_io)>>,
                          passthrough |-> Passthrough(pattern1_this_io, pattern2_this_io,
                                                      Min(w1.len, w2.len))]))

\* compare(wave1, wave2): what it returns or raises and the rows it prints
compare(g, w1, w2) ==
    IF Len(g.IOs) = 0 THEN [ret |-> PyInt(-1), printed |-> <<>>]
    ELSE IF w1 = None \/ w2 = None THEN [ret |-> PyInt(-1), printed |-> <<>>]
    ELSE IF w1.type # "GlueWave" \/ w2.type # "GlueWave"
    THEN [ret |-> Raise("AttributeError"), printed |-> <<>>]
    ELSE CompareLoop(g, w1, w2, 1, <<>>)

\* the loop "for i in range(len(diff_signals))", from the k-th name on
RECURSIVE DiffLoop(_, _, _, _, _, _, _)
DiffLoop(g, w1, w2, diff_signals, k, signals, signal_names) ==
    IF k > Len(diff_signals) THEN [ret |-> None, signals |-> signals,
                                   signal_names |-> signal_names]
    ELSE
    LET name == diff_signals[k]
    IN IF w1 = None \/ w1.type # "GlueWave"
       THEN [ret |-> Raise("AttributeError"), signals |-> signals,
             signal_names |-> signal_names]
       ELSE IF w1.vector # <<>> /\ name \notin DOMAIN g.IO_pos
       THEN [ret |-> Raise("KeyError"), signals |-> signals, signal_names |-> signal_names]
       ELSE IF w2 = None \/ w2.type # "GlueWave"
       THEN [ret |-> Raise("AttributeError"), signals |-> signals,
             signal_names |-> signal_names]
       ELSE IF w2.vector # <<>> /\ name \notin DOMAIN g.IO_pos
       THEN [ret |-> Raise("KeyError"), signals |-> signals, signal_names |-> signal_names]
       ELSE
       LET sig1 == IF w1.vector = <<>> THEN <<>> ELSE Pattern(w1.vector, g.IO_pos[name])
           sig2 == IF w2.vector = <<>> THEN <<>> ELSE Pattern(w2.vector, g.IO_pos[name])
       IN DiffLoop(g, w1, w2, diff_signals, k + 1,
             signals \o << sig1, sig2,
                           [i \in 1..Min(w1.len, w2.len) |->
                               IF sig1[i] # sig2[i] THEN 1 ELSE 0] >>,
             signal_names \o << name \o <<"(", "1", ")">>, name \o <<"(", "2", ")">>,
                                <<"d", "i", "f", "f", "(">> \o name \o <<")">> >>)

\* diff(wave1, wave2, diff_signals), diff_signals being a str or a list of
\* str: what it returns or raises and the arguments it gives plot_waves
\* (which asserts that it is given a trace; the drawing is matplotlib's)
diff(g, w1, w2, diff_signals) ==
    LET none == [ret |-> PyInt(-1), signals |-> <<>>, signal_names |-> <<>>]
    IN IF Len(g.IOs) = 0 THEN none
       ELSE
       LET r == DiffLoop(g, w1, w2,
                         IF diff_signals.type = "str" THEN <<diff_signals.val>>
                         ELSE diff_signals.val,
                         1, <<>>, <<>>)
       IN IF r.ret # None THEN [none EXCEPT !.ret = r.ret]
          ELSE IF w1 = None \/ w1.type # "GlueWave"
          THEN [none EXCEPT !.ret = Raise("AttributeError")]        \* wave1.strobe_ps
          ELSE IF Len(r.signals) = 0 THEN [none EXCEPT !.ret = Raise("AssertionError")]
          ELSE r

----------------------------------------------------------------------------
(* The analysis scenario: a converter is built on an IOSpec file, the      *)
(* client makes one or two waves and compares them.                         *)

CmpVectors == UNION {[1..n -> 0..3] : n \in 0..MaxCmpLen}
CmpHardwares == {PyStr(HW_SE_IO), PyStr(HW_CARIBOU_PATH)}
DiffSignals ==
    {PyStr(<<"A">>), PyStr(<<"C">>), PyStr(UNKNOWN), PyList(<< <<"A">>, <<"B">> >>),
     PyList(<<>>)}

CmpInits == (ConvIOSpecs \X {PyStr(IOSPEC_TXT)} \X {Logger}) \cup {<<IOSPEC_TEST, None, Logger>>}
InitCmp ==
    /\ \E c \in CmpInits :
          /\ fs = WriteFile(NoFiles, IOSPEC_TXT, c[1])
          /\ gc = GlueConverter__init__(fs, c[2], c[3]).gc
    /\ wave1 = None
    /\ wave2 = None
    /\ op = [name |-> "GlueConverter"]
    /\ ret = None
    /\ nedits = 0

Compare ==
    /\ LET r == compare(gc, wave1, wave2)
       IN /\ ret' = r.ret
          /\ op' = [name |-> "compare", wave1 |-> wave1, wave2 |-> wave2,
                    printed |-> r.printed]
    /\ UNCHANGED <<gc, wave1, wave2, fs, nedits>>

Diff(diff_signals) ==
    /\ LET r == diff(gc, wave1, wave2, diff_signals)
       IN /\ ret' = r.ret
          /\ op' = [name |-> "diff", wave1 |-> wave1, wave2 |-> wave2,
                    diff_signals |-> diff_signals,
                    signals |-> r.signals, signal_names |-> r.signal_names]
    /\ UNCHANGED <<gc, wave1, wave2, fs, nedits>>

NextCmp ==
    \/ /\ op.name = "GlueConverter"
       /\ \E v \in CmpVectors, hw \in CmpHardwares :
             NewGlueWave(v, DEFAULT_STROBE_PS, hw, <<>>)
    \/ /\ op.name = "GlueWave"
       /\ wave2 = None
       /\ \E v \in CmpVectors : NewGlueWave2(v, DEFAULT_STROBE_PS, PyStr(HW_SE_IO), <<>>)
    \/ /\ op.name = "GlueWave"
       /\ Compare
    \/ /\ op.name = "GlueWave"
       /\ \E s \in DiffSignals : Diff(s)

SpecCmp == InitCmp /\ [][NextCmp]_vars

----------------------------------------------------------------------------
(* Claims about compare and diff, checked under SpecCmp *)

\* the signals of the IOSpec that belong to the hardware of wave w
GroupOf(g, w) == {s \in DOMAIN g.IO_hardware : g.IO_hardware[s] = w.hardware_str}

\* the rows compare printed for signal s
RowsOf(o, s) == {k \in 1..Len(o.printed) : o.printed[k].io = s}

\* the two waves carry the same bit of signal s at every common timestep
SameBit(g, w1, w2, s) ==
    \A t \in 1..Min(Len(w1.vector), Len(w2.vector)) :
        Bit(w1.vector[t], g.IO_pos[s]) = Bit(w2.vector[t], g.IO_pos[s])

ComparedWaves ==
    /\ op.name = "compare"
    /\ Len(gc.IOs) > 0
    /\ op.wave1 # None
    /\ op.wave2 # None

\* C12: compare(wave1, wave2) reports, for every signal of wave1's hardware
\* group, passthrough = True exactly when the two waves have the same value
\* of that signal's bit at every timestep below min(len1, len2); so
\* compare(w, w) reports True for every signal of w's group
C12_Passthrough ==
    ComparedWaves =>
        /\ ret = None
        /\ \A s \in GroupOf(gc, op.wave1) :
              /\ RowsOf(op, s) # {}
              /\ \A k \in RowsOf(op, s) :
                    op.printed[k].passthrough = SameBit(gc, op.wave1, op.wave2, s)

\* C12 for waves that both have a timestep
C12_PassthroughNonEmpty ==
    (/\ ComparedWaves
     /\ op.wave1.vector # <<>>
     /\ op.wave2.vector # <<>>) => C12_Passthrough

\* the names diff was given, as a list
NamesOf(diff_signals) ==
    IF diff_signals.type = "str" THEN <<diff_signals.val>> ELSE diff_signals.val

\* diff was given two waves and one or more signals of the IOSpec
DiffedWaves ==
    /\ op.name = "diff"
    /\ Len(gc.IOs) > 0
    /\ op.wave1 # None
    /\ op.wave2 # None
    /\ NamesOf(op.diff_signals) # <<>>
    /\ \A k \in 1..Len(NamesOf(op.diff_signals)) :
          NamesOf(op.diff_signals)[k] \in DOMAIN gc.IO_pos

\* the first n values of signal s in wave w
BitTrace(w, s, n) == [t \in 1..n |-> Bit(w.vector[t], gc.IO_pos[s])]

\* C17: diff(wave1, wave2, signal_names) produces for each named signal
\* three traces, wave1's bit, wave2's bit and their XOR (1 exactly where
\* the two bits differ), each of length min(len1, len2)
C17_DiffTraces ==
    DiffedWaves =>
        LET names == NamesOf(op.diff_signals)
            n == Min(Len(op.wave1.vector), Len(op.wave2.vector))
        IN /\ ret = None
           /\ Len(op.signals) = 3 * Len(names)
           /\ \A k \in 1..Len(names) :
                 /\ op.signals[3 * k - 2] = BitTrace(op.wave1, names[k], n)
                 /\ op.signals[3 * k - 1] = BitTrace(op.wave2, names[k], n)
                 /\ op.signals[3 * k] =
                       [t \in 1..n |->
                          IF BitTrace(op.wave1, names[k], n)[t]
                             # BitTrace(op.wave2, names[k], n)[t] THEN 1 ELSE 0]

\* C17 for two waves of the same length
C17_DiffTracesSameLength ==
    (DiffedWaves /\ Len(op.wave1.vector) = Len(op.wave2.vector)) => C17_DiffTraces

----------------------------------------------------------------------------
(* Claims about the failures of dict2Glue, checked under SpecConv *)

\* dict2Glue was given signals of the IOSpec that are not all of one
\* hardware group, or not all of the group hardware_str names
HardwareMismatch(o) ==
    /\ o.name = "dict2Glue"
    /\ KeysOf(o.waves_dict) \subseteq DOMAIN gc.IO_hardware
    /\ \A s \in KeysOf(o.waves_dict) : InSeq(s, gc.IOs)
    /\ \/ \E s1, s2 \in KeysOf(o.waves_dict) : gc.IO_hardware[s1] # gc.IO_hardware[s2]
       \/ /\ o.hardware_str # None
          /\ \E s \in KeysOf(o.waves_dict) : gc.IO_hardware[s] # o.hardware_str

\* the call returned -1 and wrote no file
FailedWithoutWave == ret = PyInt(-1) /\ DOMAIN fs = {IOSPEC_TXT}

\* C13: dict2Glue returns the failure result and produces no wave whenever
\* the supplied signals do not all belong to the same hardware group, or a
\* supplied signal belongs to a hardware group other than hardware_str
C13_HardwareMismatch == HardwareMismatch(op) => FailedWithoutWave

\* C13 for a converter that was given a logger
C13_HardwareMismatchLogged ==
    (HardwareMismatch(op) /\ gc._log # None) => FailedWithoutWave

----------------------------------------------------------------------------
(* The multiplexed import scenario: a converter is built on an IOSpec with  *)
(* a multiplexed pin and imports a first and then a second ASCII wave file. *)

SECOND_ASCII == <<"s", "e", "c", "o", "n", "d", ".", "t", "x", "t">>

\* as IOSPEC_MUX, the sibling B having the default 1
IOSPEC_MUX_DEF ==
    <<HwLine(HW_SE_IO), Sig("A", "I", "0"), SigD("B", "I", "0", "1"),
      Sig("C", "I", "1"), END_LINE>>

\* files naming one or two signals, the bitstrings ending in 1
MuxBitStrings == {b \in BitStrings : b # <<>> /\ b[Len(b)] = "1"}
MuxEntries ==
    {<< <<n, <<":">>, b>> >> : n \in SigNames, b \in MuxBitStrings}
    \cup {<< <<n[1], <<":">>, b1>>, <<n[2], <<":">>, b2>> >> :
             n \in {<< <<"A">>, <<"B">> >>, << <<"A">>, <<"C">> >>, << <<"C">>, <<"B">> >>},
             b1 \in MuxBitStrings, b2 \in {<<"1">>}}

InitMux ==
    /\ \E l \in {IOSPEC_MUX, IOSPEC_MUX_DEF} :
          /\ fs = WriteFile(NoFiles, IOSPEC_TXT, l)
          /\ gc = GlueConverter__init__(fs, PyStr(IOSPEC_TXT), Logger).gc
    /\ wave1 = None
    /\ wave2 = None
    /\ op = [name |-> "GlueConverter"]
    /\ ret = None
    /\ nedits = 0

NextMux ==
    \/ /\ op.name = "GlueConverter"
       /\ \E e \in MuxEntries : PutAscii(TEST_ASCII, e)
    \/ /\ op.name = "ascii2Glue"
       /\ SECOND_ASCII \notin DOMAIN fs
       /\ \E e \in MuxEntries : PutAscii(SECOND_ASCII, e)
    \/ /\ op.name = "put_ascii"
       /\ \E io \in BOOLEAN, hw_list \in Orders(Values(gc.IO_hardware)) :
             Ascii2Glue(op.file, 1, 0, io, hw_list)

SpecMux == InitMux /\ [][NextMux]_vars

----------------------------------------------------------------------------
(* Claims about ascii2Glue and the multiplexed pins, checked under SpecMux *)

\* the signals of a multiplexed group that the file names
PresentOf(o, group) == Members(group) \cap KeysOf(DictOf(o.entries, o.ticks_per_bit))

\* an import of name:bitstring lines with non-empty bitstrings, every name
\* being a signal of the IOSpec that the import covers (an input, or any
\* signal when inputs_only is false), on an IOSpec of one hardware group
MuxImport(o) ==
    /\ o.name = "ascii2Glue"
    /\ o.before.loaded_iospec_file
    /\ Cardinality(Values(o.before.IO_hardware)) = 1
    /\ NameBitstringLines(o.entries)
    /\ \A k \in 1..Len(o.entries) :
          /\ o.entries[k][3] # <<>>
          /\ o.entries[k][1] \in DOMAIN o.before.IO_dir
          /\ o.inputs_only => o.before.IO_dir[o.entries[k][1]] = <<"I">>

\* the value the file gives signal s at timestep t (the last one is held)
FileBit(o, s, t) ==
    LET q == SeqOf(DictOf(o.entries, o.ticks_per_bit), s)
    IN q[Min(t, Len(q))]

\* C14: for every multiplexed-pin group, ascii2Glue returns failure and no
\* wave when more than one signal of the group is present in the input
\* file; when at most one is present it proceeds, the other signals of the
\* group are left out of consideration, and the shared bit position carries
\* the present signal's bit values
C14_MuxGroups ==
    MuxImport(op) =>
        LET groups == {op.before.Multiplexed_IOs[k] :
                          k \in 1..Len(op.before.Multiplexed_IOs)}
        IN IF \E g \in groups : Cardinality(PresentOf(op, g)) > 1
           THEN ret = PyInt(-1)
           ELSE /\ ret.type = "GlueWave"
                /\ \A g \in groups : \A s \in PresentOf(op, g) :
                      \A t \in 1..Len(ret.vector) :
                          Bit(ret.vector[t], op.before.IO_pos[s]) = FileBit(op, s, t)

\* C14 for the first import a converter makes
C14_MuxGroupsFirstImport ==
    (MuxImport(op) /\ op.file = TEST_ASCII) => C14_MuxGroups

\* the IOSpec table right after the load of the scenario's IOSpec file
TableAfterLoad == GlueConverter__init__(fs, PyStr(IOSPEC_TXT), Logger).gc

\* C15: once parse_iospec_file has succeeded the IOSpec table is immutable:
\* after any sequence of imports the list of all signals, the input and
\* output subsets, the bit positions, defaults, hardware groups and
\* multiplexed groups are the same as right after the load
C15_TableImmutable ==
    /\ gc.IOs = TableAfterLoad.IOs
    /\ gc.Input_IOs = TableAfterLoad.Input_IOs
    /\ gc.Output_IOs = TableAfterLoad.Output_IOs
    /\ gc.IO_pos = TableAfterLoad.IO_pos
    /\ gc.IO_default = TableAfterLoad.IO_default
    /\ gc.IO_hardware = TableAfterLoad.IO_hardware
    /\ gc.Multiplexed_IOs = TableAfterLoad.Multiplexed_IOs

----------------------------------------------------------------------------
(* Claims about the format errors of parse_iospec_file, checked under       *)
(* SpecParse                                                                *)

\* a signal line with three fields or more
SignalLine(line) ==
    /\ line \notin HwLines \cup {END_LINE} \cup SkippedLines
    /\ Len(Split(line, ",")) >= 3

\* every line is a HARDWARE line, an END line, a comment, a blank line or a
\* signal line with three fields or more
ClassifiedLines(lines) ==
    \A k \in 1..Len(lines) :
        lines[k] \in HwLines \cup {END_LINE} \cup SkippedLines \/ SignalLine(lines[k])

BeforeFirstHardware(lines, k) == \A j \in 1..(k - 1) : lines[j] \notin HwLines
AfterEnd(lines, k) ==
    \E j \in 1..(k - 1) :
        lines[j] = END_LINE /\ \A m \in (j + 1)..(k - 1) : lines[m] \notin HwLines

\* the bit-position field or the default-value field is not an integer
NonIntegerField(line) ==
    LET line_tokens == Split(line, ",")
    IN \/ IntOf(line_tokens[3]).type = "raise"
       \/ Len(line_tokens) > 3 /\ IntOf(line_tokens[4]).type = "raise"

FormatError == ret = Raise("Exception")

\* C16: parse_iospec_file fails with a format error for every signal line
\* outside a HARDWARE ... BEGIN/END block, before the first HARDWARE line
\* or after an END line, and for every signal line whose bit-position or
\* default-value field is not an integer
C16_FormatErrors ==
    (/\ Loaded
     /\ ClassifiedLines(op.lines)
     /\ \E k \in 1..Len(op.lines) :
           /\ SignalLine(op.lines[k])
           /\ \/ BeforeFirstHardware(op.lines, k)
              \/ AfterEnd(op.lines, k)
              \/ NonIntegerField(op.lines[k]))
    => FormatError

\* C16 for files whose signal lines all come after a HARDWARE line
C16_FormatErrorsAfterHardware ==
    (/\ Loaded
     /\ ClassifiedLines(op.lines)
     /\ \A k \in 1..Len(op.lines) :
           SignalLine(op.lines[k]) => ~BeforeFirstHardware(op.lines, k)
     /\ \E k \in 1..Len(op.lines) :
           /\ SignalLine(op.lines[k])
           /\ AfterEnd(op.lines, k) \/ NonIntegerField(op.lines[k]))
    => FormatError

----------------------------------------------------------------------------
(* Claims about metadata lines, checked under SpecCodec and SpecVcd *)

\* a //KEY:VALUE line other than the two mandatory ones
OtherKeyValueLine(line) ==
    /\ StartsWith(line, COMMENT)
    /\ InSeq(":", line)
    /\ ~StartsWith(line, STROBE_LINE)
    /\ ~StartsWith(line, HARDWARE_LINE)

WithoutLine(lines, k) == SubSeq(lines, 1, k - 1) \o SubSeq(lines, k + 1, Len(lines))

\* a file has just been read
FileRead ==
    /\ op.name = "read_glue"
    /\ op.arg.type = "str"
    /\ op.arg.val \in DOMAIN fs

\* what read_glue gives for the file without its line k
ReadWithout(k) ==
    read_glue(gc, WriteFile(fs, op.arg.val, WithoutLine(fs[op.arg.val], k)), op.arg)

SameDecoded(a, b) ==
    /\ a.type = "GlueWave"
    /\ a.vector = b.vector
    /\ a.strobe_ps = b.strobe_ps
    /\ a.hardware = b.hardware

\* C19: read_glue takes the strobe period only from the
\* //STROBE_PICOSECONDS line and the hardware only from the //HARDWARE line:
\* any other //KEY:VALUE line added to a Glue file leaves the decoded
\* vector, strobe period and hardware unchanged and the read successful
C19_OtherLinesIgnored ==
    FileRead =>
        \A k \in 2..Len(fs[op.arg.val]) :
            (OtherKeyValueLine(fs[op.arg.val][k]) /\ ReadWithout(k).type = "GlueWave")
            => SameDecoded(ret, ReadWithout(k))

\* C19 for added lines whose text holds neither STROBE nor HARDWARE
C19_PlainLinesIgnored ==
    FileRead =>
        \A k \in 2..Len(fs[op.arg.val]) :
            (/\ OtherKeyValueLine(fs[op.arg.val][k])
             /\ ~Contains(fs[op.arg.val][k], STROBE)
             /\ ~Contains(fs[op.arg.val][k], HARDWARE)
             /\ ReadWithout(k).type = "GlueWave")
            => SameDecoded(ret, ReadWithout(k))

\* the line //key:value
KeyValueLine(key, value) == COMMENT \o key \o <<":">> \o value \o NL

\* the metadata VCD2Glue gives the waves it constructs
VcdMetadata(o) ==
    << <<VCD_TIMEBASE_PICOSECONDS, Str(PyFloat(o.vcd.timescale_ps, 0))>>,
       <<GLUE_TIMESTEPS,
         IntToStr(((o.vcd.endtime - o.vcd.starttime) * o.vcd.timescale_ps)
                  \div o.strobe_ps.val)>> >>

\* C18: the metadata of a GlueWave is carried through to its serialized
\* form: every key/value pair given when the wave is constructed (here
\* VCD_TIMEBASE_PICOSECONDS and GLUE_TIMESTEPS, given by VCD2Glue) is a
\* //KEY:VALUE line of the file write_glue writes for that wave
C18_MetadataWritten ==
    (op.name = "VCD2Glue" /\ ret.type = "list") =>
        \A k \in 1..Len(ret.val) :
            ret.val[k].type = "str" =>
                \A i \in 1..Len(VcdMetadata(op)) :
                    InSeq(KeyValueLine(VcdMetadata(op)[i][1], VcdMetadata(op)[i][2]),
                          fs[ret.val[k].val])

\* C20: set_bit(t, bit_pos, value) fails with an index error and leaves
\* the vector unchanged for every t that is not a timestep index of the
\* wave (t < 0 or t >= len)
C20_IndexError ==
    (op.name = "set_bit" /\ (op.t < 0 \/ op.t >= op.before.len))
    => ret = Raise("IndexError") /\ wave1.vector = op.before.vector

\* C20 for the indexes Python does not wrap (t < -len or t >= len)
C20_IndexErrorBeyondWrap ==
    (op.name = "set_bit" /\ (op.t < -op.before.len \/ op.t >= op.before.len))
    => ret = Raise("IndexError") /\ wave1.vector = op.before.vector

----------------------------------------------------------------------------
(* Claims about misuse of the analysis operations, checked under SpecCmp *)

NullWave(o) == o.wave1 = None \/ o.wave2 = None

\* C21: compare and diff called with a null wave (wave1 or wave2 is None)
\* report the error and return the failure result, without raising and
\* without computing any result
C21_NullWave ==
    /\ (op.name = "compare" /\ NullWave(op)) => (ret = PyInt(-1) /\ op.printed = <<>>)
    /\ (op.name = "diff" /\ NullWave(op)) => (ret = PyInt(-1) /\ op.signals = <<>>)

\* C21 for compare alone
C21_NullWaveCompare ==
    (op.name = "compare" /\ NullWave(op)) => (ret = PyInt(-1) /\ op.printed = <<>>)

----------------------------------------------------------------------------
(* Operations on a converter without an IOSpec, checked under SpecConv *)

NoIOSpecLoaded == ~gc.loaded_iospec_file
RefusedWithoutIOSpec == ret = PyInt(-1) /\ DOMAIN fs = {IOSPEC_TXT}

\* C22: while no IOSpec has been successfully loaded, each operation that
\* needs the IOSpec (here dict2Glue and the two bitstream queries) returns
\* the failure result -1, without raising and without writing a file
C22_NoIOSpec ==
    (NoIOSpecLoaded /\ op.name \in {"dict2Glue"} \cup Queries) => RefusedWithoutIOSpec

\* C22 for the bitstream queries alone
C22_NoIOSpecQueries == (NoIOSpecLoaded /\ op.name \in Queries) => RefusedWithoutIOSpec

\* C22 for VCD2Glue, under SpecVcd
C22_NoIOSpecVcd ==
    (NoIOSpecLoaded /\ op.name = "VCD2Glue") => (ret = PyInt(-1) /\ DOMAIN fs \subseteq {IOSPEC_TXT})

----------------------------------------------------------------------------
(* AsciiWave: human-readable waves, one bitstring per signal *)
(* signals is a dict in insertion order: a sequence of <<name, bitstring>> *)

MaxAsciiCalls == 4   \* most calls made on one AsciiWave

HasKey(d, k) == \E i \in 1..Len(d) : d[i][1] = k
Get(d, k) == d[CHOOSE i \in 1..Len(d) : d[i][1] = k][2]
Put(d, k, v) == IF HasKey(d, k) THEN [i \in 1..Len(d) |-> IF d[i][1] = k THEN <<k, v>> ELSE d[i]] ELSE Append(d, <<k, v>>)
RECURSIVE Times(_, _)
Times(n, s) == IF n = 0 THEN <<>> ELSE s \o Times(n - 1, s)
PyStrOf(x) == IF x.type = "str" THEN x.val ELSE Str(x)

AsciiWave__init__ == [type |-> "AsciiWave", signals |-> <<>>]

init_signal(self, sig_name, init_val) == [self EXCEPT !.signals = Put(@, sig_name, PyStrOf(init_val))]

RECURSIVE init_signals(_, _)
init_signals(self, sig_val_list) ==
    IF sig_val_list = <<>> THEN self
    ELSE init_signals(init_signal(self, sig_val_list[1][1], sig_val_list[1][2]), Tail(sig_val_list))

\* self.signals[sig_name][-1] raises IndexError on an empty bitstring
_extend_signal(self, sig_name, n) ==
    LET s == Get(self.signals, sig_name)
    IN IF s = <<>> THEN [ret |-> Raise("IndexError"), self |-> self]
       ELSE [ret |-> None, self |-> [self EXCEPT !.signals = Put(@, sig_name, s \o Times(n, <<s[Len(s)]>>))]]

\* for signal in self.signals.keys(): append to the named signals, extend
\* the others by n; an exception leaves the signals visited so far changed
RECURSIVE AppendLoop(_, _, _, _)
AppendLoop(self, named, n, k) ==
    IF k > Len(self.signals) THEN [ret |-> None, self |-> self]
    ELSE LET signal == self.signals[k][1]
         IN IF HasKey(named, signal)
            THEN AppendLoop([self EXCEPT !.signals = Put(@, signal, self.signals[k][2] \o Get(named, signal))], named, n, k + 1)
            ELSE LET e == _extend_signal(self, signal, n)
                 IN IF e.ret # None THEN e ELSE AppendLoop(e.self, named, n, k + 1)

set_signal(self, sig_name, set_val) == AppendLoop(self, << <<sig_name, PyStrOf(set_val)>> >>, 1, 1)

pulse_signal(self, sig_name, posedge) ==
    LET pulse == IF posedge THEN <<"0", "1", "0">> ELSE <<"1", "0", "1">>
    IN AppendLoop(self, << <<sig_name, pulse>> >>, 3, 1)

\* next(iter({})) raises StopIteration; the second print of the length
\* error subscripts custom_wave.keys(), a TypeError
custom_wave(self, custom_wave_arg) ==
    IF custom_wave_arg = <<>> THEN [ret |-> Raise("StopIteration"), self |-> self]
    ELSE LET custom_wave_len == Len(custom_wave_arg[1][2])
         IN IF \E w \in 1..Len(custom_wave_arg) : Len(custom_wave_arg[w][2]) # custom_wave_len
            THEN [ret |-> Raise("TypeError"), self |-> self]
            ELSE AppendLoop(self, custom_wave_arg, custom_wave_len, 1)

(* AsciiWave scenario: calls made on one AsciiWave *)

AsciiSigNames == {<<"A">>, <<"B">>}
InitVals == {PyInt(0), PyInt(1), PyInt(10), PyStr(<<>>)}
SetVals == {PyInt(0), PyInt(1), PyInt(10)}
SigValLists == {<<>>, << <<(<<"A">>), PyInt(0)>>, <<(<<"B">>), PyInt(1)>> >>, << <<(<<"B">>), PyInt(1)>>, <<(<<"A">>), PyStr(<<>>)>> >>}
CustomWaves == {<<>>, << <<(<<"A">>), <<"0", "1">> >> >>, << <<(<<"A">>), <<"1">> >>, <<(<<"B">>), <<"0">> >> >>, << <<(<<"A">>), <<"1">> >>, <<(<<"B">>), <<"0", "1">> >> >>, << <<UNKNOWN, <<"1", "1">> >> >>}

InitAsciiWave ==
    /\ gc = None
    /\ wave1 = AsciiWave__init__
    /\ wave2 = None
    /\ fs = NoFiles
    /\ op = [name |-> "AsciiWave"]
    /\ ret = None
    /\ nedits = 0

InitSignal(sig_name, init_val) ==
    /\ wave1' = init_signal(wave1, sig_name, init_val)
    /\ ret' = None
    /\ op' = [name |-> "init_signal", named |-> << <<sig_name, PyStrOf(init_val)>> >>, before |-> wave1]
    /\ nedits' = nedits + 1
    /\ UNCHANGED <<gc, wave2, fs>>

InitSignals(sig_val_list) ==
    /\ wave1' = init_signals(wave1, sig_val_list)
    /\ ret' = None
    /\ op' = [name |-> "init_signals", named |-> [i \in 1..Len(sig_val_list) |-> <<sig_val_list[i][1], PyStrOf(sig_val_list[i][2])>>], before |-> wave1]
    /\ nedits' = nedits + 1
    /\ UNCHANGED <<gc, wave2, fs>>

SetSignal(sig_name, set_val) ==
    /\ LET r == set_signal(wave1, sig_name, set_val)
       IN wave1' = r.self /\ ret' = r.ret
    /\ op' = [name |-> "set_signal", named |-> << <<sig_name, PyStrOf(set_val)>> >>, before |-> wave1]
    /\ nedits' = nedits + 1
    /\ UNCHANGED <<gc, wave2, fs>>

PulseSignal(sig_name, posedge) ==
    /\ LET r == pulse_signal(wave1, sig_name, posedge)
       IN wave1' = r.self /\ ret' = r.ret
    /\ op' = [name |-> "pulse_signal", named |-> << <<sig_name, IF posedge THEN <<"0", "1", "0">> ELSE <<"1", "0", "1">> >> >>, before |-> wave1]
    /\ nedits' = nedits + 1
    /\ UNCHANGED <<gc, wave2, fs>>

CustomWave(custom_wave_arg) ==
    /\ LET r == custom_wave(wave1, custom_wave_arg)
       IN wave1' = r.self /\ ret' = r.ret
    /\ op' = [name |-> "custom_wave", named |-> custom_wave_arg, before |-> wave1]
    /\ nedits' = nedits + 1
    /\ UNCHANGED <<gc, wave2, fs>>

NextAsciiWave ==
    \/ /\ nedits < MaxAsciiCalls
       /\ \E n \in AsciiSigNames, v \in InitVals : InitSignal(n, v)
    \/ /\ nedits < MaxAsciiCalls
       /\ \E l \in SigValLists : InitSignals(l)
    \/ /\ nedits < MaxAsciiCalls
       /\ \E n \in AsciiSigNames \cup {UNKNOWN}, v \in SetVals : SetSignal(n, v)
    \/ /\ nedits < MaxAsciiCalls
       /\ \E n \in AsciiSigNames, e \in BOOLEAN : PulseSignal(n, e)
    \/ /\ nedits < MaxAsciiCalls
       /\ \E w \in CustomWaves : CustomWave(w)

SpecAsciiWave == InitAsciiWave /\ [][NextAsciiWave]_vars

AsciiEdits == {"set_signal", "pulse_signal", "custom_wave"}
EqualLength(w) == \A i, j \in 1..Len(w.signals) : Len(w.signals[i][2]) = Len(w.signals[j][2])

\* C23: after every edit (set_signal, pulse_signal, custom_wave) of an
\* AsciiWave that returns normally, whatever init_signal, init_signals and
\* edit calls came before, all signals' bitstrings have the same length
C23_EqualLength == (op.name \in AsciiEdits /\ ret = None) => EqualLength(wave1)

\* number of characters an edit gives to the signals it does not name
EditWidth(o) == Len(o.named[1][2])
OneWidth(o) == \A i \in 1..Len(o.named) : Len(o.named[i][2]) = EditWidth(o)
ExtendedBy(old, new, o) ==
    IF HasKey(o.named, old[1]) THEN new[2] = old[2] \o Get(o.named, old[1])
    ELSE new[2] = old[2] \o Times(EditWidth(o), <<old[2][Len(old[2])]>>)

\* C23 for an edit that returns normally, on signals of equal length, with
\* new characters of one width for every named signal: the named signals
\* get their characters, the others that many copies of their last one
C23_EditKeepsSync ==
    (op.name \in AsciiEdits /\ ret = None /\ EqualLength(op.before) /\ OneWidth(op)
        /\ (op.name = "set_signal" => EditWidth(op) = 1))
    => /\ EqualLength(wave1)
       /\ Len(wave1.signals) = Len(op.before.signals)
       /\ \A i \in 1..Len(wave1.signals) :
             /\ wave1.signals[i][1] = op.before.signals[i][1]
             /\ ExtendedBy(op.before.signals[i], wave1.signals[i], op)

----------------------------------------------------------------------------
(* Claims about the loaded IOSpec table, checked under SpecParse *)

Unique(s) == \A i, j \in 1..Len(s) : s[i] = s[j] => i = j
ParsedOK == op.name \in {"__init__", "parse_iospec_file"} /\ ret = None /\ gc.loaded_iospec_file

\* C24: after every successful load of an IOSpec file, whatever its text, no
\* signal name occurs twice in the list of all signals, in the input subset
\* or in the output subset
C24_UniqueNames ==
    ParsedOK => (Unique(gc.IOs) /\ Unique(gc.Input_IOs) /\ Unique(gc.Output_IOs))

----------------------------------------------------------------------------
(* Reload scenario: a converter, with or without an IOSpec, parses a second file *)

SECOND_IOSPEC == <<"b", ".", "t", "x", "t">>

NextReload ==
    \/ /\ SECOND_IOSPEC \notin DOMAIN fs
       /\ \E l \in IOSpecFiles : PutFile(SECOND_IOSPEC, l)
    \/ /\ op.name = "put_file"
       /\ ParseIOSpecFile(PyStr(SECOND_IOSPEC))

SpecReload == InitConv /\ [][NextReload]_vars

FailedParse == op.name = "parse_iospec_file" /\ FormatError
TableOf(g) == <<g.IOs, g.Input_IOs, g.Output_IOs, g.Multiplexed_IOs, g.IO_dir, g.IO_pos, g.IO_default, g.IO_hardware>>

\* C26: a parse_iospec_file call that fails with a format error leaves the
\* IOSpec table (signals, directions, bit positions, defaults, hardware
\* groups, multiplexed groups) the same as before the call
C26_FailedParseKeepsTable == (FailedParse /\ op.before.loaded_iospec_file) => TableOf(gc) = TableOf(op.before)

----------------------------------------------------------------------------
(* Sampling instants of VCD2Glue, checked under SpecVcd *)

\* the last trace tick at or before output timestep t (counted from 0),
\* and the tick nearest to it
TruncTick(o, t) ==
    CHOOSE k \in 0..(o.vcd.starttime + t * NumM(o.strobe_ps)) :
        /\ (k - o.vcd.starttime) * o.vcd.timescale_ps <= t * NumM(o.strobe_ps)
        /\ t * NumM(o.strobe_ps) < (k + 1 - o.vcd.starttime) * o.vcd.timescale_ps
RoundTick(o, t) == VcdTick_Round(t, o.strobe_ps, PyFloat(o.vcd.timescale_ps, 0), o.vcd.starttime)

InTrace(o) == {x \in DOMAIN o.before.IO_pos : InSeq(x, VcdScope(o)) /\ ~AbsentFromTrace(o, x)}
SampledAt(o, x, t, tick) ==
    Bit(o.waves[o.before.IO_hardware[x]].vector[t + 1], o.before.IO_pos[x]) = 1
    <=> VcdValue(o.vcd, Scoped(o.vcd.hierarchy, x), tick) = "1"
Steps(o, x) == 0..(Len(o.waves[o.before.IO_hardware[x]].vector) - 1)
Imported(o) == SupportedImport(o) /\ ret.type = "list"

\* C25: for every signal in scope and every output timestep t, VCD2Glue
\* sets the signal's bit at t exactly when the trace holds logic 1 at tick
\* round(t * ratio) + vcd_start_tick, ratio = strobe_ps / vcd_timebase_ps
C25_SampleRounded ==
    Imported(op) => \A x \in InTrace(op) : \A t \in Steps(op, x) : SampledAt(op, x, t, RoundTick(op, t))

\* C25 with the tick the code computes: the integer part of
\* t * ratio + vcd_start_tick, the last tick at or before the timestep
C25_SampleTruncated ==
    Imported(op) => \A x \in InTrace(op) : \A t \in Steps(op, x) : SampledAt(op, x, t, TruncTick(op, t))

\* a ratio below 1: a timestep between two ticks, whose nearest tick is the
\* later one and holds another value than the earlier one
C25_Witness ==
    /\ Imported(op)
    /\ NumM(op.strobe_ps) < op.vcd.timescale_ps
    /\ \E x \in InTrace(op) : \E t \in Steps(op, x) :
          /\ RoundTick(op, t) # TruncTick(op, t)
          /\ VcdValue(op.vcd, Scoped(op.vcd.hierarchy, x), TruncTick(op, t)) = "1"
          /\ VcdValue(op.vcd, Scoped(op.vcd.hierarchy, x), RoundTick(op, t)) = "0"
          /\ Bit(op.waves[op.before.IO_hardware[x]].vector[t + 1], op.before.IO_pos[x]) = 1

----------------------------------------------------------------------------
(* Output files of VCD2Glue, checked under SpecVcd *)

FilesWritten == DOMAIN fs \ {IOSPEC_TXT}
GroupsOf(o) == Values(o.before.IO_hardware)
FileOfGroup(o, hw) == o.output_file_tag \o <<"_">> \o o.waves[hw].hardware.val[3] \o DOT_GLUE
HoldsWaveOf(o, hw) ==
    /\ FileOfGroup(o, hw) \in DOMAIN fs
    /\ fs[FileOfGroup(o, hw)] = write_glue(NoFiles, o.waves[hw], FileOfGroup(o, hw), TRUE).fs[FileOfGroup(o, hw)]
NonEmptyImport(o) == Imported(o) /\ \A hw \in GroupsOf(o) : Len(o.waves[hw].vector) >= 1

\* C27: VCD2Glue writes one file per hardware group of the IOSpec: the
\* number of distinct files written equals the number of hardware groups,
\* and each group's wave is held by the file named from the output-file-tag
\* and the group's innermost path component
C27_OneFilePerGroup ==
    NonEmptyImport(op) =>
        /\ Cardinality(FilesWritten) = Cardinality(GroupsOf(op))
        /\ \A hw \in GroupsOf(op) : HoldsWaveOf(op, hw)

\* C27 for IOSpecs whose groups have different innermost path components
C27_OneFilePerInnermostName ==
    (NonEmptyImport(op)
        /\ \A h1, h2 \in GroupsOf(op) : FileOfGroup(op, h1) = FileOfGroup(op, h2) => h1 = h2)
    => /\ Cardinality(FilesWritten) = Cardinality(GroupsOf(op))
       /\ \A hw \in GroupsOf(op) : HoldsWaveOf(op, hw)

----------------------------------------------------------------------------
(* Query scenario: every analysis and read operation on one or two waves *)

NextQuery ==
    \/ NextCmp
    \/ /\ op.name = "GlueWave"
       /\ \E n \in SigNames \cup {UNKNOWN} : GetBitstream(n)
    \/ /\ op.name = "GlueWave"
       /\ \E c \in {<<"A">>, UNKNOWN}, d \in SigNames : GetClockedBitstream(c, d)
    \/ /\ op.name = "GlueWave"
       /\ \E bit_pos \in 0..MaxBit : GetTrace(bit_pos)

SpecQuery == InitCmp /\ [][NextQuery]_vars

\* C28: compare, diff, get_bitstream, get_clocked_bitstream and get_trace
\* are pure queries: after any of them every wave passed in has the vector,
\* mask, strobe period, hardware and metadata it had before the call
C28_PureQueries ==
    /\ op.name \in {"compare", "diff"} => (wave1 = op.wave1 /\ wave2 = op.wave2)
    /\ op.name \in Queries => wave1 = op.wave
    /\ op.name = "get_trace" => wave1 = op.before

C28_Witness ==
    /\ op.name = "get_bitstream"
    /\ ret.type = "list" /\ Len(ret.val) >= 2 /\ \E i \in 1..Len(ret.val) : ret.val[i] = 1
    /\ wave1 = op.wave /\ Len(wave1.vector) = Len(ret.val)

----------------------------------------------------------------------------
(* Edit scenario: a wave made by dict2Glue is edited in place *)

NextEdit ==
    \/ /\ op.name = "GlueConverter"
       /\ \E d \in Dicts1 \cup {TEST_WAVES_DICT} : Dict2Glue(d, None, 0)
    \/ /\ wave1.type = "GlueWave" /\ nedits < MaxEdits
       /\ \E t \in 0..(wave1.len - 1), b \in 0..MaxBit, v \in {0, 1} : SetBit(t, b, v)
    \/ /\ wave1.type = "GlueWave" /\ nedits < MaxEdits
       /\ \E b \in 0..MaxBit, v \in {0, 1} : SetMaskBit(b, v)
    \/ /\ wave1.type = "GlueWave" /\ nedits < MaxEdits
       /\ ApplyMask

SpecEdit == InitConv /\ [][NextEdit]_vars

\* the largest bit position of the wave's hardware group, and the elements
\* and the mask that fit in the positions up to it
MaxPos(g, w) == MaxOf({g.IO_pos[s] : s \in GroupOf(g, w)})
Fits(g, w) == \A i \in 1..Len(w.vector) : w.vector[i] >= 0 /\ w.vector[i] < Pow2(MaxPos(g, w) + 1)
MaskFits(g, w) == w.mask >= 0 /\ w.mask < Pow2(MaxPos(g, w) + 1)
Edited == wave1.type = "GlueWave" /\ GroupOf(gc, wave1) # {}

\* C29: in every state reached by an importer followed by any sequence of
\* set_bit, set_mask_bit and apply_mask calls, each vector element is a
\* non-negative integer smaller than 2^(p+1), p being the largest bit
\* position of the wave's hardware group
C29_FitsWidth == Edited => Fits(gc, wave1)

\* C29 for the import itself, and for an edit at a bit position of the
\* group on a wave whose elements and mask fit
C29_FitsWithinGroup ==
    /\ (Edited /\ op.name = "dict2Glue") => (Fits(gc, wave1) /\ MaskFits(gc, wave1))
    /\ (/\ Edited /\ op.name \in {"set_bit", "set_mask_bit"}
        /\ op.bit_pos <= MaxPos(gc, wave1)
        /\ Fits(gc, op.before) /\ MaskFits(gc, op.before))
       => (Fits(gc, wave1) /\ MaskFits(gc, wave1))
    /\ (Edited /\ op.name = "apply_mask" /\ Fits(gc, op.before) /\ MaskFits(gc, op.before))
       => (Fits(gc, wave1) /\ MaskFits(gc, wave1))

----------------------------------------------------------------------------
(* The cached length of a wave, checked under SpecWave *)

\* C30: after construction and after any sequence of set_bit, set_mask_bit
\* and apply_mask calls, the cached length wave.len equals the current
\* length of wave.vector
C30_LenIsLength == wave1 # None => wave1.len = Len(wave1.vector)

C30_Witness ==
    /\ op.name = "apply_mask" /\ nedits = MaxEdits
    /\ op.before.mask # 0
    /\ wave1.vector # op.before.vector
    /\ \E i \in 1..Len(wave1.vector) : wave1.vector[i] = op.before.vector[i]
    /\ wave1.len = 2 /\ Len(wave1.vector) = 2

====
